---- MODULE Spec2Model ----
(***************************************************************************)
(* Narrative Session & Generation Engine of WhatIf (backend_services).     *)
(*                                                                         *)
(* The module models the turn transaction LLMService.generate_story_script *)
(* and the dispatcher UnifiedLLMRepository.generate_structured_script with *)
(* its session lock, result cache and RateLimiter, the provider adapters'  *)
(* retry loops, and the JSONL event log and JSON snapshot files.           *)
(*                                                                         *)
(* Every request is an asyncio task; one action is the code a task runs    *)
(* between two suspension points.  Time is discrete: Tick lets one unit of *)
(* time pass, and timestamps are kept as ages (now - timestamp).           *)
(***************************************************************************)
EXTENDS Integers, Sequences, FiniteSets, TLC

VARIABLES
    pc,             \* position of each request's task in the turn transaction
    req,            \* the GenerateRequest of each task: session, entry point, choice
    rl_requests,    \* RateLimiter.requests of each service instance, as ages, oldest first
    rl_lock,        \* RateLimiter.lock of each instance: the set of tasks holding it
    sleep_left,     \* remaining time of the asyncio.sleep a task is suspended in
    session_locks,  \* _session_locks of each instance: per session the set of holders
    request_cache,  \* _request_cache of each instance: set of [hash, result, age, by]
    events,         \* the <session>.jsonl file of each session: sequence of TurnEvents
    snapshots,      \* the <session>_snapshot.json file of each session: <<>> or <<Snapshot>>
    snapshot,       \* the Snapshot a task loaded in get_or_create_session
    current_turn,   \* the turn number a task computed from get_latest_turn
    attempts,       \* vendor attempts made by the provider for a task's request
    last_outcome,   \* outcome of the task's latest vendor attempt
    generation_result, \* what generate_structured_script returned to the task
    updated_globals,   \* the GlobalState computed by _update_global_state
    provider,       \* the process-wide provider adapter (_provider_instance)
    request_tuple,  \* the (session, context, prompt, deviation, temperature) a task dispatched
    vendor_calls,   \* history: per task the number of provider invocations made for it
    twins,          \* history: per task the tasks with an identical request tuple that
                    \* were in flight or freshly cached when the task was dispatched
    control,        \* a session's GlobalState under the Deviation Controller, with the
                    \* arguments and result of the latest _apply_deviation_control call
    circuit_breaker, \* the process-wide CircuitBreaker of llm_settings
    compacting,     \* a Snapshot handed to _check_and_summarize, and what came of it
    corpus,         \* AnchorRepository._data_cache: the chapters of article_data.json
    anchoring,      \* the latest call of each anchor service route, with its answer
    repairing,      \* a unit list handed to _ensure_valid_script_structure, and the
                    \* list it returned
    pending_requests  \* _pending_requests of each instance: set of [hash, task]

vars == <<pc, req, rl_requests, rl_lock, sleep_left, session_locks,
          request_cache, events, snapshots, snapshot, current_turn, attempts,
          last_outcome, generation_result, updated_globals, provider, request_tuple,
          vendor_calls, twins, control, circuit_breaker, compacting,
          corpus, anchoring, repairing, pending_requests>>

\* Variables of the anchor service.
anchor_vars == <<corpus, anchoring>>

\* Variables of the controller, the circuit breaker, compaction, the anchor
\* service and the reply repair step on their own.
aux_vars == <<control, circuit_breaker, compacting, anchor_vars, repairing>>

----------------------------------------------------------------------------
(* Bounds of the model *)

NumRequests == 2        \* tasks (HTTP requests) the model follows

\* llm_settings.rate_limit_requests is 30 and rate_limit_window is 60 seconds;
\* _cache_timeout is 30 seconds.  The model scales them down.
max_requests == 1
time_window == 1
_cache_timeout == 1

Requests == 1 .. NumRequests
NoTask == {}            \* an asyncio.Lock nobody holds

\* The two routers each cache their own LLMService (get_llm_service).
Entries == {"game", "llm"}

Sessions == {<<"a">>, <<"b">>}

\* GenerateRequest.session_id is any str, the empty one included; its files are
\* ".jsonl" and "_snapshot.json", its lock is the one of session_id or "unknown".
SessionIds == Sessions \cup {<<>>}

Min(a, b) == IF a <= b THEN a ELSE b
Max(a, b) == IF a >= b THEN a ELSE b

\* Variables of the turn transaction, untouched by the rate limiter's own steps.
turn_vars == <<session_locks, request_cache, events, snapshots, snapshot,
               current_turn, attempts, last_outcome, generation_result,
               updated_globals, provider, request_tuple, vendor_calls, twins, aux_vars, pending_requests>>

----------------------------------------------------------------------------
(* Data: strings are sequences of characters; "U" stands for a character that *)
(* takes three bytes in UTF-8 (the scripts are Chinese), "L" for a long run   *)
(* of ASCII text, any other character for one ASCII byte.                     *)

Choices == {<<"U">>, <<"y">>}       \* GenerateRequest.player_choice
Contexts == {<<"k", "k">>}          \* GenerateRequest.context

NoRequest == [session_id |-> <<>>, entry |-> "none", player_choice |-> <<>>,
              context |-> <<>>]

\* s[:n]
Prefix(s, n) == SubSeq(s, 1, Min(n, Len(s)))

\* context[:200] and prompt[:100] of _create_request_hash, scaled down
context_prefix == 2
prompt_prefix == 1

RECURSIVE Concat(_)
Concat(ss) == IF ss = <<>> THEN <<>> ELSE Head(ss) \o Concat(Tail(ss))

\* UTF-8 encoding of one character: 0 is the first byte of a character,
\* 1 a continuation byte.
Utf8(ch) == IF ch = "U" THEN <<0, 1, 1>>
            ELSE IF ch = "L" THEN <<0, 0, 0, 0>>
            ELSE <<0>>

Encode(s) == Concat([i \in DOMAIN s |-> Utf8(s[i])])

\* json.dumps(event.model_dump(), ensure_ascii=False) + '\n': the bytes of the
\* event's text fields followed by the newline (the JSON scaffolding is left out).
JsonLine(text) == Encode(text) \o <<0>>

ScriptText(script) == Concat([i \in DOMAIN script |-> script[i].content])

Unit(type, content) == [type |-> type, content |-> content]

\* GlobalState; deviation in hundredths (0.05 is 5), affinity of one character,
\* and the flags and variables as the set of keys that were written
GlobalState(deviation, affinity, flags) ==
    [deviation |-> deviation, affinity |-> affinity, flags |-> flags]

\* SnapshotRepository.create_initial_snapshot
create_initial_snapshot == [globals |-> GlobalState(0, 0, {}), summary |-> <<>>, recent |-> <<>>]

----------------------------------------------------------------------------
(* Event Log: EventStreamRepository *)

\* f.seek(file_size - buffer_size) reads the last 8192 bytes; scaled down
read_buffer == 5

FileBytes(file) == Concat([i \in DOMAIN file |-> file[i].line])

\* EventStreamRepository.get_latest_turn: 0 for a missing or empty file; otherwise
\* the tail of the file is read, decoded and split into lines, and the last
\* non-blank line parsed.  A tail that starts inside a multi-byte character fails
\* to decode, a tail that starts inside the last line leaves a fragment that is
\* no JSON document; both exceptions are caught and 0 is returned.
get_latest_turn(file) ==
    IF file = <<>> THEN 0
    ELSE LET bytes == FileBytes(file)
             file_size == Len(bytes)
             buffer_size == Min(read_buffer, file_size)
             start == file_size - buffer_size + 1
             last == file[Len(file)]
             last_start == file_size - Len(last.line) + 1
         IN  IF bytes[start] = 1 THEN 0
             ELSE IF start > last_start THEN 0
             ELSE last.t

----------------------------------------------------------------------------
(* LLMSettings and the Deviation Controller *)

\* LLMSettings.get_deviation_level compares the deviation it is given with
\* 5, 30 and 60; in hundredths of the unit the caller passes that is 500, 3000, 6000.
get_deviation_level(deviation) ==
    IF deviation < 500 THEN "low"
    ELSE IF deviation <= 3000 THEN "medium"
    ELSE IF deviation <= 6000 THEN "high"
    ELSE "critical"

\* deviation_configs[level].temperature, in tenths
config_temperature(level) == IF level = "critical" THEN 10 ELSE 8

\* LLMService._get_temperature_from_config
_get_temperature_from_config(deviation) == config_temperature(get_deviation_level(deviation))

\* A controller that hands the vendor's delta through
UncontrolledDelta(current_deviation, proposed_delta) == proposed_delta

\* A global state update that does not clamp
UnclampedGlobalState(current_state, result) ==
    GlobalState(current_state.deviation + result.deviation_delta,
                current_state.affinity + result.affinity_changes,
                current_state.flags \cup result.flags_updates)

\* A controller whose band above 0.60 still lets the deviation grow by 0.02
GrowingHighBand(current_deviation, proposed_delta) ==
    IF current_deviation < 5 THEN Min(proposed_delta, 5)
    ELSE IF current_deviation <= 30
         THEN IF proposed_delta > 0 THEN Min(proposed_delta, 10) ELSE proposed_delta
    ELSE IF proposed_delta > 0 THEN Min(proposed_delta, 2) ELSE Max(proposed_delta, -15)

\* LLMService._apply_deviation_control, in hundredths
_apply_deviation_control(current_deviation, proposed_delta) ==
    IF current_deviation < 5 THEN Min(proposed_delta, 5)
    ELSE IF current_deviation <= 30
         THEN IF proposed_delta > 0 THEN Min(proposed_delta, 10) ELSE proposed_delta
    ELSE IF current_deviation <= 60
         THEN IF proposed_delta > 0 THEN Min(proposed_delta, 2) ELSE Max(proposed_delta, -15)
    ELSE IF proposed_delta > 0 THEN 0 ELSE Max(proposed_delta, -20)

\* LLMService._update_global_state
_update_global_state(current_state, result) ==
    GlobalState(
        Max(0, Min(100, current_state.deviation
                          + _apply_deviation_control(current_state.deviation,
                                                     result.deviation_delta))),
        Max(-100, Min(100, current_state.affinity + result.affinity_changes)),
        current_state.flags \cup result.flags_updates)

----------------------------------------------------------------------------
(* Dispatcher: request hash and result cache of UnifiedLLMRepository *)

\* f"{session_id}:{stable_context}:{stable_prompt}:{stable_deviation}:{stable_temp}"
\* (md5 of the string is taken to be injective)
_create_request_hash(prompt, context, session_id, deviation, temperature) ==
    session_id \o <<":">> \o Prefix(context, context_prefix) \o <<":">>
               \o Prefix(prompt, prompt_prefix)
               \o <<":", ToString(deviation), ":", ToString(temperature)>>

\* The arguments generate_story_script passes to generate_structured_script:
\* prompt, context, session_id, current_state.deviation, temperature.
NoTuple == [prompt |-> <<>>, context |-> <<>>, session_id |-> <<>>, deviation |-> 0,
            temperature |-> 0]

RequestTuple(request, state) ==
    [prompt |-> request.player_choice, context |-> request.context,
     session_id |-> request.session_id, deviation |-> state.deviation,
     temperature |-> _get_temperature_from_config(state.deviation)]

RequestHash(t) ==
    _create_request_hash(t.prompt, t.context, t.session_id, t.deviation, t.temperature)

\* The tuple of the dedup contract: (session_id, context-prefix, prompt, deviation,
\* temperature)
DedupKey(t) == <<t.session_id, Prefix(t.context, context_prefix), t.prompt, t.deviation,
                 t.temperature>>

\* _cleanup_cache: entries older than _cache_timeout are deleted
_cleanup_cache(cache) == {c \in cache : ~(c.age > _cache_timeout)}

\* cache_timeout = self._cache_timeout * 0.5 if prompt else self._cache_timeout
\* time.time() - timestamp < cache_timeout
CacheFresh(c, prompt) ==
    IF prompt # <<>> THEN 2 * c.age < _cache_timeout ELSE c.age < _cache_timeout

CacheHits(cache, hash, prompt) == {c \in cache : c.hash = hash /\ CacheFresh(c, prompt)}

\* self._request_cache[request_hash] = (result_data, time.time())
CachePut(cache, hash, result, r) ==
    {c \in cache : c.hash # hash} \cup {[hash |-> hash, result |-> result, age |-> 0, by |-> r]}

\* A dispatcher whose `finally` leaves the task in the pending-request map
PendingKept(pending, hash) == pending

\* finally: if request_hash in self._pending_requests: del self._pending_requests[request_hash]
PendingRemoved(pending, hash) == {p \in pending : p.hash # hash}

\* self._pending_requests[request_hash] = task
PendingPut(pending, hash, r) ==
    {p \in pending : p.hash # hash} \cup {[hash |-> hash, task |-> r]}

----------------------------------------------------------------------------
(* Provider adapters *)

\* A fallback response that does not say it is one
UnmarkedFallbackResponse ==
    [script_units |-> <<Unit("narration", <<"U">>), Unit("interaction", <<"U">>)>>,
     deviation_delta |-> 0, affinity_changes |-> 0, flags_updates |-> {},
     fallback |-> FALSE]

\* BaseLLMProvider._create_fallback_response
_create_fallback_response ==
    [script_units |-> <<Unit("narration", <<"U">>), Unit("interaction", <<"U">>)>>,
     deviation_delta |-> 0, affinity_changes |-> 0, flags_updates |-> {},
     fallback |-> TRUE]

\* A fallback response that leaves the player without an interaction unit
NarrationOnlyFallback ==
    [script_units |-> <<Unit("narration", <<"U", "U">>)>>,
     deviation_delta |-> 0, affinity_changes |-> 0, flags_updates |-> {},
     fallback |-> TRUE]

\* UnifiedLLMRepository._get_fallback_response (its two texts are not the provider's)
_get_fallback_response ==
    [script_units |-> <<Unit("narration", <<"U", "U">>), Unit("interaction", <<"U", "U">>)>>,
     deviation_delta |-> 0, affinity_changes |-> 0, flags_updates |-> {},
     fallback |-> TRUE]

\* The generation_result that generate_story_script builds itself when
\* generate_structured_script raised (its texts are again different ones)
OrchestratorFallbackResult ==
    [script_units |-> <<Unit("narration", <<"U", "y">>), Unit("interaction", <<"U", "y">>)>>,
     deviation_delta |-> 0, affinity_changes |-> 0, flags_updates |-> {},
     fallback |-> TRUE]

\* Parsed replies the vendor may send: a script that ends with an interaction
\* unit, a script that is narration only, and a reply without script units.
WellFormedReply ==
    [script_units |-> <<Unit("narration", <<"x">>), Unit("interaction", <<"x">>)>>,
     deviation_delta |-> 10, affinity_changes |-> 5, flags_updates |-> {"f"},
     fallback |-> FALSE]

NarrationOnlyReply ==
    [script_units |-> <<Unit("narration", <<"U">>)>>,
     deviation_delta |-> 0, affinity_changes |-> 5, flags_updates |-> {},
     fallback |-> FALSE]

NoUnitsReply ==
    [script_units |-> <<>>, deviation_delta |-> 0, affinity_changes |-> 0, flags_updates |-> {},
     fallback |-> FALSE]

VendorReplies == {WellFormedReply, NarrationOnlyReply, NoUnitsReply}

NoResult == [script_units |-> <<>>, deviation_delta |-> 0, affinity_changes |-> 0,
             flags_updates |-> {}, fallback |-> FALSE]

\* What one vendor attempt can come back with: a parsable reply; text that is no
\* JSON document but that _clean_malformed_json would turn into the reply (a comma
\* before the closing brace); text that is no JSON document and stays none; an
\* empty reply; or an exception (network, rate, 5xx).
Outcomes == {"ok", "repairable", "malformed", "empty", "error"}

\* GeminiProvider: max_retries = 3
max_retries == 3

----------------------------------------------------------------------------
(* Compaction: SessionRepository._check_and_summarize *)

\* llm_settings: max_recent_events = 50, max_snapshot_size = 32 * 1024 bytes,
\* summarization_batch_size = 30; an existing summary of more than 2000
\* characters is cut to its first 1500.  The model scales them down.
max_recent_events == 4
max_snapshot_size == 24
summarization_batch_size == 3
summary_limit == 4
summary_keep == 3

\* The Snapshot of a session as save_turn sees it: recent and summary (None and
\* "" are both <<>>).  Three fields are history: compacted says whether the latest
\* save_turn ran _perform_summarization, folded how many events it took out of
\* recent, reply how the vendor answered its summary request ("none" without one).
NoCompaction == [recent |-> <<>>, summary |-> <<>>, compacted |-> FALSE, folded |-> 0,
                 reply |-> "none"]

\* len(snapshot.model_dump_json().encode('utf-8')): the bytes of the events and
\* of the summary (the JSON scaffolding is left out)
snapshot_size(snap) == Len(FileBytes(snap.recent)) + Len(Encode(snap.summary))

\* _check_and_summarize: needs_summarization
needs_summarization(snap) ==
    \/ Len(snap.recent) > max_recent_events
    \/ snapshot_size(snap) > max_snapshot_size

\* What the vendor may answer to a summary request: a text, white space only,
\* no content at all, or an exception
SummaryReplies == {"text", "blank", "empty", "error"}

\* provider.generate_summary.  GeminiProvider returns response.content.strip() if
\* response.content is not empty and a marker text otherwise; OpenAIProvider
\* returns message.content.strip(); both return a failure text on an exception.
generate_summary(p, reply) ==
    IF reply = "text" THEN <<"s">>
    ELSE IF reply = "blank" THEN <<>>
    ELSE IF reply = "error" THEN <<"f">>
    ELSE IF p = "gemini" THEN <<"f">> ELSE <<>>

\* UnifiedLLMRepository.summarize_events: user events and assistant events with
\* a script make up the text; without any text the summary is "".
summarize_events(p, evs, reply) ==
    IF SelectSeq(evs, LAMBDA ev : ev.role = "user" \/ ev.script # <<>>) = <<>>
    THEN <<>>
    ELSE generate_summary(p, reply)

\* batch_size of _perform_summarization
batch_size(recent) ==
    Min(summarization_batch_size, Min(Len(recent) - 1, Max(1, Len(recent) \div 2)))

\* A compaction that leaves the snapshot as it is
SummarizationSkipped(snap, p, reply) == snap

\* SessionRepository._perform_summarization (its exception handler is not
\* reached: summarize_events catches what the vendor call raises)
_perform_summarization(snap, p, reply) ==
    IF Len(snap.recent) < 2 \/ batch_size(snap.recent) <= 0 THEN snap
    ELSE LET n == batch_size(snap.recent)
             new_summary == summarize_events(p, SubSeq(snap.recent, 1, n), reply)
             combined ==
                 IF snap.summary # <<>>
                 THEN IF Len(snap.summary) > summary_limit
                      THEN Prefix(snap.summary, summary_keep) \o <<"c">>
                               \o <<"n", "n">> \o new_summary
                      ELSE snap.summary \o <<"n", "n">> \o new_summary
                 ELSE new_summary
         IN  [snap EXCEPT !.summary = combined,
                          !.recent = SubSeq(snap.recent, n + 1, Len(snap.recent))]

\* SessionRepository._check_and_summarize
_check_and_summarize(snap, p, reply) ==
    IF needs_summarization(snap) THEN _perform_summarization(snap, p, reply) ELSE snap

----------------------------------------------------------------------------
(* RateLimiter (repositories.py), one instance per UnifiedLLMRepository *)

\* self.requests = [req for req in self.requests if req > cutoff]
\* with cutoff = now - time_window: a timestamp stays while its age < time_window.
CleanExpired(ages) == SelectSeq(ages, LAMBDA a : a < time_window)

\* len(self.requests) >= self.max_requests
LimitReached(ages) == Len(ages) >= max_requests

\* sleep_time = max(0, self.time_window - (now.timestamp() - self.requests[0]))
SleepTime(ages) == Max(0, time_window - ages[1])

\* `async with self.lock` of RateLimiter.acquire, then the body up to its next
\* suspension point.  The task must find the lock free; a task that re-enters
\* acquire() from inside the `async with` block waits on the lock it holds itself.
RLEnter(r) ==
    /\ pc[r] = "rl_wait"
    /\ rl_lock[req[r].entry] = NoTask
    /\ LET e == req[r].entry
           kept == CleanExpired(rl_requests[e])
       IN  IF LimitReached(kept) /\ SleepTime(kept) > 0
           THEN \* await asyncio.sleep(sleep_time), still inside `async with`
                /\ rl_requests' = [rl_requests EXCEPT ![e] = kept]
                /\ rl_lock' = [rl_lock EXCEPT ![e] = {r}]
                /\ sleep_left' = [sleep_left EXCEPT ![r] = SleepTime(kept)]
                /\ pc' = [pc EXCEPT ![r] = "rl_sleep"]
           ELSE \* self.requests.append(now.timestamp()); return True
                /\ rl_requests' = [rl_requests EXCEPT ![e] = Append(kept, 0)]
                /\ pc' = [pc EXCEPT ![r] = "vendor"]
                /\ UNCHANGED <<rl_lock, sleep_left>>
    \* back in generate_structured_script, which goes on without suspending:
    \* task = asyncio.create_task(...); self._pending_requests[request_hash] = task
    \* (a bare caller of acquire() has dispatched no request and registers nothing)
    /\ pending_requests' =
          IF pc'[r] = "vendor" /\ request_tuple[r] # NoTuple
          THEN [pending_requests EXCEPT
                   ![req[r].entry] = PendingPut(@, RequestHash(request_tuple[r]), r)]
          ELSE pending_requests
    /\ UNCHANGED <<req, session_locks, request_cache, events, snapshots, snapshot,
                   current_turn, attempts, last_outcome, generation_result,
                   updated_globals, provider, request_tuple, vendor_calls, twins, aux_vars>>

\* The sleep is over: `return await self.acquire()` calls acquire() again while
\* the caller's frame still holds self.lock (asyncio.Lock is not re-entrant).
RLWake(r) ==
    /\ pc[r] = "rl_sleep"
    /\ sleep_left[r] = 0
    /\ pc' = [pc EXCEPT ![r] = "rl_wait"]
    /\ UNCHANGED <<req, rl_requests, rl_lock, sleep_left, turn_vars>>

----------------------------------------------------------------------------
(* Passage of time *)

AgeSeq(ages, cap) == [i \in DOMAIN ages |-> Min(ages[i] + 1, cap)]

Tick ==
    /\ rl_requests' = [e \in Entries |-> AgeSeq(rl_requests[e], time_window)]
    /\ sleep_left' = [r \in Requests |-> Max(0, sleep_left[r] - 1)]
    /\ request_cache' =
           [e \in Entries |->
               {[c EXCEPT !.age = Min(c.age + 1, _cache_timeout + 1)] : c \in request_cache[e]}]
    /\ UNCHANGED <<pc, req, rl_lock, session_locks, events, snapshots, snapshot,
                   current_turn, attempts, last_outcome, generation_result,
                   updated_globals, provider, request_tuple, vendor_calls, twins, aux_vars, pending_requests>>

----------------------------------------------------------------------------
(* The turn transaction: LLMService.generate_story_script *)

rl_vars == <<rl_requests, rl_lock, sleep_left>>

InDispatcher(r) == pc[r] \in {"lock", "rl_wait", "rl_sleep", "vendor"}

\* A request reaches one of the two routers; both call generate_story_script
\* on their own LLMService.
Arrive(r, s, e, c, k) ==
    /\ pc[r] = "idle"
    /\ \A q \in Requests : q < r => pc[q] # "idle"   \* tasks are numbered as they arrive
    /\ req' = [req EXCEPT ![r] = [session_id |-> s, entry |-> e, player_choice |-> c,
                                   context |-> k]]
    /\ pc' = [pc EXCEPT ![r] = "get_session"]
    /\ UNCHANGED <<rl_vars, turn_vars>>

\* SessionRepository.get_or_create_session: await load_snapshot
GetOrCreateSession(r) ==
    /\ pc[r] = "get_session"
    /\ LET s == req[r].session_id
       IN  IF snapshots[s] = <<>>
           THEN /\ pc' = [pc EXCEPT ![r] = "create"]
                /\ UNCHANGED snapshot
           ELSE /\ snapshot' = [snapshot EXCEPT ![r] = snapshots[s][1]]
                /\ pc' = [pc EXCEPT ![r] = "get_turn"]
    /\ UNCHANGED <<req, rl_vars, session_locks, request_cache, events, snapshots,
                   current_turn, attempts, last_outcome, generation_result,
                   updated_globals, provider, request_tuple, vendor_calls, twins, aux_vars, pending_requests>>

\* ... the snapshot was None: await create_initial_snapshot (which saves it)
CreateInitialSnapshot(r) ==
    /\ pc[r] = "create"
    /\ snapshots' = [snapshots EXCEPT ![req[r].session_id] = <<create_initial_snapshot>>]
    /\ snapshot' = [snapshot EXCEPT ![r] = create_initial_snapshot]
    /\ pc' = [pc EXCEPT ![r] = "get_turn"]
    /\ UNCHANGED <<req, rl_vars, session_locks, request_cache, events,
                   current_turn, attempts, last_outcome, generation_result,
                   updated_globals, provider, request_tuple, vendor_calls, twins, aux_vars, pending_requests>>

\* The tasks whose identical request is in flight in a dispatcher, or whose result
\* for it is still fresh in the cache of the instance that produced it.
Twins(r, t) ==
    {q \in Requests \ {r} :
        /\ DedupKey(request_tuple[q]) = DedupKey(t)
        /\ \/ InDispatcher(q)
           \/ \E c \in request_cache[req[q].entry] :
                 c.by = q /\ c.hash = RequestHash(t) /\ CacheFresh(c, t.prompt)}

\* current_turn = await get_latest_turn(session_id) + 1, then the events are
\* built and generate_structured_script is called: _cleanup_cache() runs and the
\* task goes for the session lock.
GetLatestTurn(r) ==
    /\ pc[r] = "get_turn"
    /\ LET t == RequestTuple(req[r], snapshot[r].globals)
           e == req[r].entry
       IN  /\ current_turn' = [current_turn EXCEPT
                                 ![r] = get_latest_turn(events[req[r].session_id]) + 1]
           /\ request_tuple' = [request_tuple EXCEPT ![r] = t]
           /\ request_cache' = [request_cache EXCEPT ![e] = _cleanup_cache(request_cache[e])]
           /\ twins' = [twins EXCEPT ![r] = Twins(r, t)]
    /\ pc' = [pc EXCEPT ![r] = "lock"]
    /\ UNCHANGED <<req, rl_vars, session_locks, events, snapshots, snapshot, attempts,
                   last_outcome, generation_result, updated_globals, provider,
                   vendor_calls, aux_vars, pending_requests>>

\* `async with session_lock`, the pending and the cache check.  On a cache hit
\* the cached result is returned and the lock released at once; otherwise the
\* task keeps the lock and goes on to rate_limiter.acquire().
AcquireSessionLock(r) ==
    /\ pc[r] = "lock"
    /\ session_locks[req[r].entry][req[r].session_id] = NoTask
    /\ LET e == req[r].entry
           hits == CacheHits(request_cache[e], RequestHash(request_tuple[r]),
                             request_tuple[r].prompt)
       IN  IF hits # {}
           THEN LET result == (CHOOSE c \in hits : TRUE).result
                IN  /\ generation_result' = [generation_result EXCEPT ![r] = result]
                    /\ updated_globals' =
                          [updated_globals EXCEPT
                              ![r] = _update_global_state(snapshot[r].globals, result)]
                    /\ pc' = [pc EXCEPT ![r] = "append_user"]
                    /\ UNCHANGED session_locks
           ELSE /\ session_locks' = [session_locks EXCEPT ![e][req[r].session_id] = {r}]
                /\ pc' = [pc EXCEPT ![r] = "rl_wait"]
                /\ UNCHANGED <<generation_result, updated_globals>>
    /\ UNCHANGED <<req, rl_vars, request_cache, events, snapshots, snapshot,
                   current_turn, attempts, last_outcome, provider, request_tuple,
                   vendor_calls, twins, aux_vars, pending_requests>>

\* What the provider returns once it stops trying: the vendor's reply if the
\* last attempt brought a parsable one, its canned fallback response otherwise.
\* json.loads is applied to the text as it came (GeminiProvider: to the text from
\* the first "{" to the last "}"); neither provider repairs a text it rejects.
ProviderResult(outcome, reply) ==
    IF outcome = "ok" THEN reply ELSE _create_fallback_response

\* GeminiProvider: `for attempt in range(max_retries)` goes round again after an
\* empty reply or an exception while attempt < max_retries - 1.
GeminiRetries(outcome, made) == outcome \in {"empty", "error"} /\ made < max_retries

\* OpenAIProvider: the method body catches every exception and returns the
\* fallback response, so the tenacity decorator never sees one to retry on.
OpenAIRetries(outcome, made) == FALSE

ProviderRetries(p, outcome, made) ==
    IF p = "gemini" THEN GeminiRetries(outcome, made) ELSE OpenAIRetries(outcome, made)

\* One vendor attempt of provider.generate_structured_script, inside
\* _perform_generation.  When the provider returns, the result is cached, the
\* session lock released, and generate_story_script computes the new GlobalState.
VendorAttempt(r, outcome, reply) ==
    /\ pc[r] = "vendor"
    /\ LET e == req[r].entry
           made == attempts[r] + 1
           result == ProviderResult(outcome, reply)
       IN  /\ attempts' = [attempts EXCEPT ![r] = made]
           /\ last_outcome' = [last_outcome EXCEPT ![r] = outcome]
           /\ vendor_calls' = [vendor_calls EXCEPT ![r] = 1]
           /\ IF ProviderRetries(provider, outcome, made)
              THEN UNCHANGED <<pc, request_cache, session_locks, generation_result,
                               updated_globals, pending_requests>>
              ELSE /\ pending_requests' =
                         [pending_requests EXCEPT
                             ![e] = PendingRemoved(@, RequestHash(request_tuple[r]))]
                   /\ request_cache' =
                         [request_cache EXCEPT
                             ![e] = CachePut(request_cache[e],
                                             RequestHash(request_tuple[r]), result, r)]
                   /\ session_locks' = [session_locks EXCEPT ![e][req[r].session_id] = NoTask]
                   /\ generation_result' = [generation_result EXCEPT ![r] = result]
                   /\ updated_globals' =
                         [updated_globals EXCEPT
                             ![r] = _update_global_state(snapshot[r].globals, result)]
                   /\ pc' = [pc EXCEPT ![r] = "append_user"]
    /\ UNCHANGED <<req, rl_vars, events, snapshots, snapshot, current_turn, provider,
                   request_tuple, twins, aux_vars>>

\* An exception inside _perform_generation before the provider is called (the
\* counts, tools or messages cannot be built).  With a session_id the dispatcher
\* returns its own fallback response, which is not cached; without one it
\* re-raises and generate_story_script builds the fallback result in its handler.
\* Either way the session lock is released and the turn goes on.
GenerationFails(r) ==
    /\ pc[r] = "vendor"
    /\ attempts[r] = 0
    /\ LET e == req[r].entry
           result == IF req[r].session_id # <<>> THEN _get_fallback_response
                     ELSE OrchestratorFallbackResult
       IN  /\ pending_requests' =
                 [pending_requests EXCEPT
                     ![e] = PendingRemoved(@, RequestHash(request_tuple[r]))]
           /\ session_locks' = [session_locks EXCEPT ![e][req[r].session_id] = NoTask]
           /\ generation_result' = [generation_result EXCEPT ![r] = result]
           /\ updated_globals' =
                 [updated_globals EXCEPT
                     ![r] = _update_global_state(snapshot[r].globals, result)]
    /\ pc' = [pc EXCEPT ![r] = "append_user"]
    /\ UNCHANGED <<req, rl_vars, request_cache, events, snapshots, snapshot, current_turn,
                   attempts, last_outcome, provider, request_tuple, vendor_calls, twins,
                   aux_vars>>

\* services.py step 8: the script stored in the assistant event; a fallback
\* script is built only when the result carries no units at all.
FallbackScript == <<Unit("narration", <<"U">>), Unit("interaction", <<"U">>)>>

AssistantScript(result) ==
    IF result.script_units = <<>> THEN FallbackScript ELSE result.script_units

user_event(r) ==
    [t |-> current_turn[r], role |-> "user", task |-> r, script |-> <<>>,
     deviation_delta |-> 0, affinity_changes |-> 0,
     line |-> JsonLine(req[r].player_choice)]

assistant_event(r) ==
    [t |-> current_turn[r], role |-> "assistant", task |-> r,
     script |-> AssistantScript(generation_result[r]),
     deviation_delta |-> generation_result[r].deviation_delta,
     affinity_changes |-> generation_result[r].affinity_changes,
     line |-> JsonLine(ScriptText(AssistantScript(generation_result[r])))]

\* SessionRepository.save_turn: await append_event(session_id, user_event)
AppendUserEvent(r) ==
    /\ pc[r] = "append_user"
    /\ events' = [events EXCEPT ![req[r].session_id] = Append(@, user_event(r))]
    /\ pc' = [pc EXCEPT ![r] = "append_assistant"]
    /\ attempts' = [attempts EXCEPT ![r] = 0]             \* the provider's frame is gone
    /\ last_outcome' = [last_outcome EXCEPT ![r] = "none"]
    /\ UNCHANGED <<req, rl_vars, session_locks, request_cache, snapshots, snapshot,
                   current_turn, generation_result,
                   updated_globals, provider, request_tuple, vendor_calls, twins, aux_vars, pending_requests>>

\* await append_event(session_id, assistant_event)
AppendAssistantEvent(r) ==
    /\ pc[r] = "append_assistant"
    /\ events' = [events EXCEPT ![req[r].session_id] = Append(@, assistant_event(r))]
    /\ pc' = [pc EXCEPT ![r] = "load_snapshot"]
    /\ UNCHANGED <<req, rl_vars, session_locks, request_cache, snapshots, snapshot,
                   current_turn, attempts, last_outcome, generation_result,
                   updated_globals, provider, request_tuple, vendor_calls, twins, aux_vars, pending_requests>>

\* snapshot = await load_snapshot(session_id); recent.extend([...]);
\* snapshot.globals = updated_globals; await _check_and_summarize(snapshot), whose
\* summary request the vendor may answer in every way
SaveTurnLoad(r) ==
    /\ pc[r] = "load_snapshot"
    /\ snapshots[req[r].session_id] # <<>>
    /\ \E reply \in SummaryReplies :
          LET stored == snapshots[req[r].session_id][1]
              extended == [stored EXCEPT
                              !.recent = @ \o <<user_event(r), assistant_event(r)>>,
                              !.globals = updated_globals[r]]
          IN  snapshot' = [snapshot EXCEPT
                             ![r] = _check_and_summarize(extended, provider, reply)]
    /\ pc' = [pc EXCEPT ![r] = "save_snapshot"]
    /\ UNCHANGED <<req, rl_vars, session_locks, request_cache, events, snapshots,
                   current_turn, attempts, last_outcome, generation_result,
                   updated_globals, provider, request_tuple, vendor_calls, twins, aux_vars, pending_requests>>

\* await save_snapshot(snapshot); the response is returned
SaveSnapshot(r) ==
    /\ pc[r] = "save_snapshot"
    /\ snapshots' = [snapshots EXCEPT ![req[r].session_id] = <<snapshot[r]>>]
    /\ pc' = [pc EXCEPT ![r] = "done"]
    /\ snapshot' = [snapshot EXCEPT ![r] = create_initial_snapshot]   \* locals are gone
    /\ UNCHANGED <<req, rl_vars, session_locks, request_cache, events,
                   current_turn, attempts, last_outcome, generation_result,
                   updated_globals, provider, request_tuple, vendor_calls, twins, aux_vars, pending_requests>>

----------------------------------------------------------------------------
(* Failing writes of the persisted state *)

\* A handler that logs a failed write and goes on as if it had succeeded
WriteFailureSwallowed(next) == next

\* append_event and save_snapshot: `except Exception as e: logger.error(...); raise`.
\* save_turn has no handler and generate_story_script's handler re-raises, so
\* the exception reaches the router, whatever step would have come next.
WriteFailed(next) == "failed"

\* aiofiles.open or f.write of append_event raises: nothing is appended
AppendEventFails(r) ==
    /\ pc[r] \in {"append_user", "append_assistant"}
    /\ pc' = [pc EXCEPT ![r] = WriteFailed(IF pc[r] = "append_user" THEN "append_assistant"
                                           ELSE "load_snapshot")]
    /\ UNCHANGED <<req, rl_vars, turn_vars>>

\* aiofiles.open or f.write of save_snapshot raises, in create_initial_snapshot
\* or at the end of save_turn: the snapshot file is not written
SaveSnapshotFails(r) ==
    /\ pc[r] \in {"create", "save_snapshot"}
    /\ pc' = [pc EXCEPT ![r] = WriteFailed(IF pc[r] = "create" THEN "get_turn" ELSE "done")]
    /\ UNCHANGED <<req, rl_vars, turn_vars>>

\* load_snapshot of an existing file: aiofiles.open, f.read, json.loads or
\* Snapshot(**data) raises; `except Exception: logger.error(...); return None`.
\* get_or_create_session takes None for "no session yet" and goes on to
\* create_initial_snapshot; save_turn raises ValueError("Snapshot not found").
LoadSnapshotFails(r) ==
    /\ pc[r] \in {"get_session", "load_snapshot"}
    /\ snapshots[req[r].session_id] # <<>>
    /\ pc' = [pc EXCEPT ![r] = IF pc[r] = "get_session" THEN "create" ELSE "failed"]
    /\ UNCHANGED <<req, rl_vars, turn_vars>>

----------------------------------------------------------------------------
(* The Deviation Controller over the turns of one session *)

\* control.state is the session's GlobalState; current, proposed and applied are
\* the arguments and the result of the latest _apply_deviation_control call;
\* level is the DeviationLevel whose GenerationConfig was selected for the turn.
NoControl == [state |-> GlobalState(0, 0, {}), current |-> 0, proposed |-> 0, applied |-> 0,
              level |-> "low"]

\* deviation_delta values a vendor may propose, in hundredths: around every cap
\* and floor of the table, and far beyond them
ProposedDeltas == {-100, -30, -21, -20, -16, -15, -1, 0, 1, 2, 3, 5, 6, 10, 11, 50, 100}

\* GlobalState.deviation is a float in [0, 1]: 0 .. 100 hundredths
Deviations == 0 .. 100

\* affinity_changes a vendor may propose for a character
AffinityChanges == {-150, 0, 150}

\* One turn of a session as the Deviation Controller sees it: the dispatcher
\* selects llm_settings.get_generation_config(current_state.deviation), the vendor
\* proposes its deltas, and _update_global_state computes the GlobalState that
\* save_turn stores as the session's next one.
ControlledTurn(d, a) ==
    /\ control' =
          [state |-> _update_global_state(control.state,
                         [deviation_delta |-> d, affinity_changes |-> a,
                          flags_updates |-> {}]),
           current |-> control.state.deviation,
           proposed |-> d,
           applied |-> _apply_deviation_control(control.state.deviation, d),
           level |-> get_deviation_level(control.state.deviation)]
    /\ UNCHANGED <<pc, req, rl_vars, session_locks, request_cache, events, snapshots,
                   snapshot, current_turn, attempts, last_outcome, generation_result,
                   updated_globals, provider, request_tuple, vendor_calls, twins,
                   circuit_breaker, compacting, anchor_vars, repairing, pending_requests>>

\* controlled_delta = self._apply_deviation_control(current_deviation, proposed_delta)
ApplyDeviationControl(c, d) ==
    /\ control' = [control EXCEPT !.current = c, !.proposed = d,
                                  !.applied = _apply_deviation_control(c, d)]
    /\ UNCHANGED <<pc, req, rl_vars, session_locks, request_cache, events, snapshots,
                   snapshot, current_turn, attempts, last_outcome, generation_result,
                   updated_globals, provider, request_tuple, vendor_calls, twins,
                   circuit_breaker, compacting, anchor_vars, repairing, pending_requests>>

----------------------------------------------------------------------------
(* CircuitBreaker (llm_settings.py) *)

\* CircuitBreaker(threshold=0.1, window_size=100): the threshold in tenths, the
\* window scaled down
error_threshold == 1
window_size == 8

\* CircuitBreaker.__init__.  Two fields are history: last_call says what the
\* latest call() did, closed is <<errors, requests>> of the window which that
\* call completed, <<>> if it completed none.
CircuitBreaker ==
    [error_count |-> 0, request_count |-> 0, is_open |-> FALSE,
     last_call |-> "none", closed |-> <<>>]

\* error_rate = self.error_count / self.request_count; error_rate > self.error_threshold
RateAboveThreshold(errors, requests) == errors * 10 > error_threshold * requests

\* CircuitBreaker._reset_window
_reset_window(cb) == [cb EXCEPT !.error_count = 0, !.request_count = 0]

\* CircuitBreaker.on_success
on_success(cb) ==
    LET counted == [cb EXCEPT !.request_count = @ + 1]
    IN  IF counted.request_count >= window_size
        THEN [_reset_window(counted) EXCEPT
                 !.closed = <<counted.error_count, counted.request_count>>]
        ELSE counted

\* CircuitBreaker.on_failure
on_failure(cb) ==
    LET counted == [cb EXCEPT !.error_count = @ + 1, !.request_count = @ + 1]
    IN  IF counted.request_count >= window_size
        THEN [_reset_window(counted) EXCEPT
                 !.is_open = IF RateAboveThreshold(counted.error_count,
                                                   counted.request_count)
                             THEN TRUE ELSE @,
                 !.closed = <<counted.error_count, counted.request_count>>]
        ELSE counted

\* CircuitBreaker.call(func): with the circuit open fallback_call answers and
\* nothing is counted; otherwise func runs and its outcome is recorded.
ProtectedCall(outcome) ==
    /\ circuit_breaker' =
          LET cb == [circuit_breaker EXCEPT !.closed = <<>>]
          IN  IF cb.is_open THEN [cb EXCEPT !.last_call = "fallback"]
              ELSE IF outcome = "success"
                   THEN on_success([cb EXCEPT !.last_call = "success"])
                   ELSE on_failure([cb EXCEPT !.last_call = "failure"])
    /\ UNCHANGED <<pc, req, rl_vars, session_locks, request_cache, events, snapshots,
                   snapshot, current_turn, attempts, last_outcome, generation_result,
                   updated_globals, provider, request_tuple, vendor_calls, twins,
                   control, compacting, anchor_vars, repairing, pending_requests>>

----------------------------------------------------------------------------
(* Compaction over the turns of one session *)

\* Scripts of an assistant event: a short one and a long one
LongScript == <<Unit("narration", <<"L", "L", "L", "L", "L">>), Unit("interaction", <<"x">>)>>

Scripts == {WellFormedReply.script_units, LongScript}

\* save_turn on the session's snapshot: recent.extend([user_event,
\* assistant_event]), _check_and_summarize, save_snapshot.
SaveTurn(choice, script, reply) ==
    /\ LET extended ==
               [compacting EXCEPT
                   !.recent = @ \o <<[role |-> "user", script |-> <<>>,
                                       line |-> JsonLine(choice)],
                                      [role |-> "assistant", script |-> script,
                                       line |-> JsonLine(ScriptText(script))]>>]
           after == _check_and_summarize(extended, provider, reply)
       IN  compacting' = [after EXCEPT
                             !.compacted = needs_summarization(extended),
                             !.folded = Len(extended.recent) - Len(after.recent),
                             !.reply = IF needs_summarization(extended) THEN reply
                                       ELSE "none"]
    /\ UNCHANGED <<pc, req, rl_vars, session_locks, request_cache, events, snapshots,
                   snapshot, current_turn, attempts, last_outcome, generation_result,
                   updated_globals, provider, request_tuple, vendor_calls, twins,
                   control, circuit_breaker, anchor_vars, repairing, pending_requests>>

----------------------------------------------------------------------------
(* Anchor service: the corpus index, span assembly, anchor context and the   *)
(* sequential read.  A chunk id "ch<c>_<n>" is the record [ch |-> c, n |-> n]; *)
(* the text of a chunk is one character, written as the chunk's own id, so   *)
(* that a text tells which chunks it was made of.                            *)

MaxAnchors == 3         \* anchors of one AssembleRequest
MaxChapters == 3        \* chapters of a corpus
MaxChunks == 3          \* chunks of a chapter

ChunkId(c, n) == [ch |-> c, n |-> n]

\* article_data.json: a list of chapters {id, chunks: [{chunk_id, text}]}.
\* Book(counts) is the corpus whose chapter c has counts[c] chunks.
Book(counts) ==
    [c \in 1..Len(counts) |->
        [id |-> c,
         chunks |-> [n \in 1..counts[c] |->
                        [chunk_id |-> ChunkId(c, n), text |-> <<ChunkId(c, n)>>]]]]

Books ==
    {Book(counts) : counts \in UNION {[1..k -> 1..MaxChunks] : k \in 1..MaxChapters}}

\* The corpus of the assembly scenario: chapter 1 is ch1_1..ch1_3, chapter 2 is
\* ch2_1..ch2_2.
ScenarioBook == Book(<<3, 2>>)

\* "".join(texts)
RECURSIVE Join(_)
Join(texts) == IF texts = <<>> THEN <<>> ELSE Head(texts) \o Join(Tail(texts))

\* The "\n\n" between the parts of AssembleResponse.text
ParagraphBreak == <<ChunkId(0, 0)>>

\* "\n\n".join(parts)
RECURSIVE JoinParts(_)
JoinParts(parts) ==
    IF parts = <<>> THEN <<>>
    ELSE IF Len(parts) = 1 THEN parts[1]
    ELSE parts[1] \o ParagraphBreak \o JoinParts(Tail(parts))

\* _get_chapter_data(chapter_id) is not None
HasChapter(chapter_id) == \E i \in 1..Len(corpus) : corpus[i].id = chapter_id

\* _get_chapter_data: the first chapter of the list with that id
_get_chapter_data(chapter_id) ==
    corpus[CHOOSE i \in 1..Len(corpus) :
               /\ corpus[i].id = chapter_id
               /\ \A j \in 1..(i - 1) : corpus[j].id # chapter_id]

\* chapter_data.get('chunks', []), [] for a chapter the corpus does not have
chapter_chunks(chapter_id) ==
    IF HasChapter(chapter_id) THEN _get_chapter_data(chapter_id).chunks ELSE <<>>

get_chapter_chunk_count(chapter_id) == Len(chapter_chunks(chapter_id))

\* get_first_chunk_id raises ValueError for a missing or empty chapter ...
get_first_chunk_id_raises(chapter_id) == chapter_chunks(chapter_id) = <<>>

\* ... and otherwise returns chunks[0]['chunk_id']
get_first_chunk_id(chapter_id) == chapter_chunks(chapter_id)[1].chunk_id

\* _get_chunk_data(chunk_id) is not None: the id is looked up across all chapters
chunk_exists(chunk_id) ==
    \E i \in 1..Len(corpus) :
        \E n \in 1..Len(corpus[i].chunks) : corpus[i].chunks[n].chunk_id = chunk_id

\* get_chunk_text: "" for an id no chapter has
get_chunk_text(chunk_id) ==
    IF chunk_exists(chunk_id)
    THEN LET i == CHOOSE i \in 1..Len(corpus) :
                     /\ \E n \in 1..Len(corpus[i].chunks) :
                            corpus[i].chunks[n].chunk_id = chunk_id
                     /\ \A j \in 1..(i - 1) : \A n \in 1..Len(corpus[j].chunks) :
                            corpus[j].chunks[n].chunk_id # chunk_id
             n == CHOOSE n \in 1..Len(corpus[i].chunks) :
                     /\ corpus[i].chunks[n].chunk_id = chunk_id
                     /\ \A m \in 1..(n - 1) : corpus[i].chunks[m].chunk_id # chunk_id
         IN  corpus[i].chunks[n].text
    ELSE <<>>

\* The index of chunk_id in its chapter's list as the loop of get_chunks_in_range
\* finds it (the last match), 0 for None
chunk_index(chapter_id, chunk_id) ==
    LET chunks == chapter_chunks(chapter_id)
        found == {n \in 1..Len(chunks) : chunks[n].chunk_id = chunk_id}
    IN  IF found = {} THEN 0 ELSE CHOOSE n \in found : \A m \in found : m <= n

\* get_chunks_in_range: the texts of the chunks from start_id to end_id, both
\* included; [] when the chapter or one of the two ids is not found, and when
\* start_id comes after end_id (an empty range()).  It never raises.
get_chunks_in_range(chapter_id, start_id, end_id) ==
    LET chunks == chapter_chunks(chapter_id)
        start_idx == chunk_index(chapter_id, start_id)
        end_idx == chunk_index(chapter_id, end_id)
    IN  IF chunks = <<>> \/ start_idx = 0 \/ end_idx = 0 THEN <<>>
        ELSE [k \in 1..(end_idx - start_idx + 1) |-> chunks[start_idx + k - 1].text]

Anchor(chapter_id, chunk_id) == [chapter_id |-> chapter_id, chunk_id |-> chunk_id]

Span(chapter_id, start_id, end_id, text) ==
    [chapter_id |-> chapter_id, start_id |-> start_id, end_id |-> end_id, text |-> text]

\* An assembly in progress: text_parts and spans
NoParts == [parts |-> <<>>, spans |-> <<>>]

\* A variant of the flush in which a lookup that finds nothing leaves no span
FlushSkippingEmpty(chapter_id, span_start, end_id, acc) ==
    LET texts == get_chunks_in_range(chapter_id, span_start, end_id)
    IN  IF texts = <<>> THEN acc
        ELSE [parts |-> Append(acc.parts, Join(texts)),
              spans |-> Append(acc.spans, Span(chapter_id, span_start, end_id, Join(texts)))]

\* The flush of one span: texts = get_chunks_in_range(...), joined = "".join(texts),
\* text_parts.append(joined), spans.append(Span(...)).  The except branch around it
\* is not modelled: neither the lookup nor the join nor Span() raises.
Flush(chapter_id, span_start, end_id, acc) ==
    LET texts == get_chunks_in_range(chapter_id, span_start, end_id)
        joined == Join(texts)
    IN  [parts |-> Append(acc.parts, joined),
         spans |-> Append(acc.spans, Span(chapter_id, span_start, end_id, joined))]

\* span_start after a chapter change: the chapter's first chunk with include_intro,
\* the anchor's own chunk on ValueError or without include_intro
reset_span_start(curr, include_intro) ==
    IF include_intro /\ ~get_first_chunk_id_raises(curr.chapter_id)
    THEN get_first_chunk_id(curr.chapter_id)
    ELSE curr.chunk_id

\* The loop over anchors[1:] and the final flush
RECURSIVE walk_anchors(_, _, _, _, _)
walk_anchors(anchors, include_intro, i, span_start, acc) ==
    IF i > Len(anchors)
    THEN Flush(anchors[Len(anchors)].chapter_id, span_start,
               anchors[Len(anchors)].chunk_id, acc)
    ELSE LET prev == anchors[i - 1]
             curr == anchors[i]
         IN  IF curr.chapter_id # prev.chapter_id
             THEN walk_anchors(anchors, include_intro, i + 1,
                               reset_span_start(curr, include_intro),
                               Flush(prev.chapter_id, span_start, prev.chunk_id, acc))
             ELSE walk_anchors(anchors, include_intro, i + 1, span_start, acc)

AssembleResponse(status, text, spans) == [status |-> status, text |-> text, spans |-> spans]

\* assemble_by_anchors: status "ValueError" stands for the exception re-raised
\* when the chapter of the first anchor cannot be seeded with include_intro
assemble_by_anchors(anchors, include_intro) ==
    IF anchors = <<>> THEN AssembleResponse("ok", <<>>, <<>>)
    ELSE IF include_intro /\ get_first_chunk_id_raises(anchors[1].chapter_id)
    THEN AssembleResponse("ValueError", <<>>, <<>>)
    ELSE LET span_start == IF include_intro THEN get_first_chunk_id(anchors[1].chapter_id)
                           ELSE anchors[1].chunk_id
             done == walk_anchors(anchors, include_intro, 2, span_start, NoParts)
         IN  AssembleResponse("ok", JoinParts(done.parts), done.spans)

\* validate_anchors(anchors) == []
validate_anchors(anchors) == \A i \in 1..Len(anchors) : chunk_exists(anchors[i].chunk_id)

NoResponse == AssembleResponse("none", <<>>, <<>>)

NoChunk ==
    [status |-> "none", chunk_id |-> ChunkId(0, 0), text |-> <<>>,
     is_last_in_chapter |-> FALSE, is_last_overall |-> FALSE, next_chunk_id |-> <<>>]

NoContext == [status |-> "none", context |-> <<>>, has_tail |-> FALSE]

NoAnchoring ==
    [anchors |-> <<>>, include_intro |-> FALSE, assembled |-> NoResponse,
     previous |-> <<>>, include_tail |-> FALSE, is_last_anchor_in_chapter |-> FALSE,
     context |-> NoContext, chunk |-> NoChunk, visited |-> <<>>]

\* Everything but the anchor service's variables
session_vars == <<pc, req, rl_vars, session_locks, request_cache, events, snapshots,
                  snapshot, current_turn, attempts, last_outcome, generation_result,
                  updated_globals, provider, request_tuple, vendor_calls, twins,
                  control, circuit_breaker, compacting, repairing, pending_requests>>

\* AnchorRepository.__init__: _load_data reads the corpus, once
LoadData(book) ==
    /\ corpus = <<>>
    /\ corpus' = book
    /\ UNCHANGED <<session_vars, anchoring>>

\* The chunk ids of the corpus, chapter by chapter
CorpusChunkIds ==
    UNION {{corpus[i].chunks[n].chunk_id : n \in 1..Len(corpus[i].chunks)} :
              i \in 1..Len(corpus)}

\* The anchors a caller can name: a chapter id up to one past the corpus, with a
\* chunk id of the corpus or one that no chapter has
UnknownChunkId == ChunkId(Len(corpus) + 1, 1)

Anchors ==
    {Anchor(c, id) : c \in 1..(Len(corpus) + 1), id \in CorpusChunkIds \cup {UnknownChunkId}}

AnchorLists == UNION {[1..k -> Anchors] : k \in 1..MaxAnchors}

\* POST /assemble: 404 when validate_anchors reports a chunk no chapter has, 400
\* on ValueError, else the response of assemble_by_anchors.  The model follows one
\* request: the response depends on nothing but the request and the corpus.
AssembleText ==
    /\ corpus # <<>>
    /\ anchoring.assembled = NoResponse
    /\ \E anchors \in AnchorLists, include_intro \in BOOLEAN :
           anchoring' =
              [anchoring EXCEPT
                  !.anchors = anchors,
                  !.include_intro = include_intro,
                  !.assembled = IF ~validate_anchors(anchors)
                                THEN AssembleResponse("404", <<>>, <<>>)
                                ELSE assemble_by_anchors(anchors, include_intro)]
    /\ UNCHANGED <<session_vars, corpus>>

AnchorContextResponse(status, context, has_tail) ==
    [status |-> status, context |-> context, has_tail |-> has_tail]

\* A variant of build_anchor_context that returns the tail alone when it adds one
TailOnlyContext(current_anchor, previous_anchor, include_tail, is_last_anchor_in_chapter) ==
    LET chapter_id == current_anchor.chapter_id
        chunk_num == current_anchor.chunk_id.n
        count == get_chapter_chunk_count(chapter_id)
        same_chapter == previous_anchor # <<>> /\ previous_anchor[1].chapter_id = chapter_id
        start_chunk_id == IF same_chapter
                          THEN ChunkId(chapter_id, previous_anchor[1].chunk_id.n + 1)
                          ELSE get_first_chunk_id(chapter_id)
        tail_texts == IF include_tail /\ is_last_anchor_in_chapter /\ chunk_num < count
                      THEN get_chunks_in_range(chapter_id, ChunkId(chapter_id, chunk_num + 1),
                                               ChunkId(chapter_id, count))
                      ELSE <<>>
    IN  IF ~same_chapter /\ get_first_chunk_id_raises(chapter_id)
        THEN AnchorContextResponse("ValueError", <<>>, FALSE)
        ELSE IF tail_texts # <<>>
        THEN AnchorContextResponse("ok", Join(tail_texts), TRUE)
        ELSE AnchorContextResponse(
                 "ok", Join(get_chunks_in_range(chapter_id, start_chunk_id,
                                                current_anchor.chunk_id)), FALSE)

\* build_anchor_context: the chunks from the chapter's first chunk, or from the one
\* after the previous anchor, up to the current anchor; with include_tail and
\* is_last_anchor_in_chapter also the chunks after it up to the chapter's end.
\* previous_anchor is <<>> for None.  int(chunk_id.split('_')[1]) is the n of a
\* chunk id; it does not raise for an id of the form "ch<c>_<n>".
build_anchor_context(current_anchor, previous_anchor, include_tail, is_last_anchor_in_chapter) ==
    LET chapter_id == current_anchor.chapter_id
        chunk_num == current_anchor.chunk_id.n
        count == get_chapter_chunk_count(chapter_id)
        same_chapter == previous_anchor # <<>> /\ previous_anchor[1].chapter_id = chapter_id
        start_chunk_id == IF same_chapter
                          THEN ChunkId(chapter_id, previous_anchor[1].chunk_id.n + 1)
                          ELSE get_first_chunk_id(chapter_id)
        chunk_texts == get_chunks_in_range(chapter_id, start_chunk_id,
                                           current_anchor.chunk_id)
        tail_texts == IF include_tail /\ is_last_anchor_in_chapter /\ chunk_num < count
                      THEN get_chunks_in_range(chapter_id, ChunkId(chapter_id, chunk_num + 1),
                                               ChunkId(chapter_id, count))
                      ELSE <<>>
    IN  IF ~same_chapter /\ get_first_chunk_id_raises(chapter_id)
        THEN AnchorContextResponse("ValueError", <<>>, FALSE)
        ELSE AnchorContextResponse("ok", Join(chunk_texts \o tail_texts),
                                   tail_texts # <<>>)

\* POST /context: 404 unless the chunks of both anchors exist, 400 on ValueError.
\* The model follows one request, for any anchor, previous anchor and flags.
BuildAnchorContext ==
    /\ corpus # <<>>
    /\ anchoring.context = NoContext
    /\ \E current_anchor \in Anchors,
          previous_anchor \in {<<>>} \cup {<<a>> : a \in Anchors},
          include_tail \in BOOLEAN, is_last_anchor_in_chapter \in BOOLEAN :
           anchoring' =
              [anchoring EXCEPT
                  !.anchors = <<current_anchor>>,
                  !.previous = previous_anchor,
                  !.include_tail = include_tail,
                  !.is_last_anchor_in_chapter = is_last_anchor_in_chapter,
                  !.context =
                      IF \/ ~chunk_exists(current_anchor.chunk_id)
                         \/ /\ previous_anchor # <<>>
                            /\ ~chunk_exists(previous_anchor[1].chunk_id)
                      THEN AnchorContextResponse("404", <<>>, FALSE)
                      ELSE build_anchor_context(current_anchor, previous_anchor,
                                                include_tail, is_last_anchor_in_chapter)]
    /\ UNCHANGED <<session_vars, corpus>>

ChunkResponse(chunk_id, text, is_last_in_chapter, is_last_overall, next_chunk_id) ==
    [status |-> "ok", chunk_id |-> chunk_id, text |-> text,
     is_last_in_chapter |-> is_last_in_chapter, is_last_overall |-> is_last_overall,
     next_chunk_id |-> next_chunk_id]

ChunkNotFound == [NoChunk EXCEPT !.status = "ValueError"]

\* max(ch['id'] for ch in all_chapters)
max_chapter_id == CHOOSE m \in {corpus[i].id : i \in 1..Len(corpus)} :
                      \A i \in 1..Len(corpus) : corpus[i].id <= m

\* A variant of get_chunk that takes the end of every chapter for the end of the
\* corpus
get_chunk_last_in_chapter(chunk_id) ==
    LET text == get_chunk_text(chunk_id)
        is_last_in_chapter == chunk_id.n >= get_chapter_chunk_count(chunk_id.ch)
    IN  IF text = <<>> THEN ChunkNotFound
        ELSE ChunkResponse(chunk_id, text, is_last_in_chapter, is_last_in_chapter,
                           IF is_last_in_chapter THEN <<>>
                           ELSE <<ChunkId(chunk_id.ch, chunk_id.n + 1)>>)

\* get_chunk: chapter and number are parsed from the id "ch<c>_<n>"; a chunk without
\* text is "not found"; next_chunk_id is <<>> for None
get_chunk(chunk_id) ==
    LET chapter_id == chunk_id.ch
        chunk_num == chunk_id.n
        text == get_chunk_text(chunk_id)
        is_last_in_chapter == chunk_num >= get_chapter_chunk_count(chapter_id)
        is_last_overall == is_last_in_chapter /\ chapter_id >= max_chapter_id
    IN  IF text = <<>> THEN ChunkNotFound
        ELSE ChunkResponse(chunk_id, text, is_last_in_chapter, is_last_overall,
                           IF is_last_overall THEN <<>>
                           ELSE IF is_last_in_chapter THEN <<ChunkId(chapter_id + 1, 1)>>
                           ELSE <<ChunkId(chapter_id, chunk_num + 1)>>)

\* get_next_chunk: ValueError at the end of the story
get_next_chunk(current_chunk_id) ==
    LET current_chunk == get_chunk(current_chunk_id)
    IN  IF current_chunk.status # "ok" THEN ChunkNotFound
        ELSE IF current_chunk.is_last_overall THEN ChunkNotFound
        ELSE IF current_chunk.next_chunk_id = <<>> THEN ChunkNotFound
        ELSE get_chunk(current_chunk.next_chunk_id[1])

\* GET /chunk/first: get_chunk("ch1_1"); the reader starts over
GetFirstChunk ==
    /\ corpus # <<>>
    /\ LET first == get_chunk(ChunkId(1, 1))
       IN  anchoring' = [anchoring EXCEPT
                            !.chunk = first,
                            !.visited = IF first.status = "ok" THEN <<first.chunk_id>>
                                        ELSE <<>>]
    /\ UNCHANGED <<session_vars, corpus>>

\* POST /chunk/next with the id of the chunk the reader holds
GetNextChunk ==
    /\ corpus # <<>>
    /\ anchoring.visited # <<>>
    /\ anchoring.chunk.status = "ok"
    /\ LET next == get_next_chunk(anchoring.chunk.chunk_id)
       IN  anchoring' = [anchoring EXCEPT
                            !.chunk = next,
                            !.visited = IF next.status = "ok" THEN Append(@, next.chunk_id)
                                        ELSE @]
    /\ UNCHANGED <<session_vars, corpus>>

----------------------------------------------------------------------------
(* Reply validation and repair: UnifiedLLMRepository._ensure_valid_script_structure *)

MaxUnits == 3   \* longest unit list handed to the repair step

\* generic_patterns: interaction texts the repair step treats as no interaction
generic_patterns == {"g1", "g2", "g3"}

\* fallback_prompts: the texts random.choice picks the appended unit's content from
fallback_prompts == {"p1", "p2", "p3", "p4", "p5", "p6"}

\* Contents of the units the model hands in: two plain texts and one that
\* contains a generic pattern
UnitContents == {<<"x">>, <<"y">>, <<"x", "g1">>}

\* any(pattern in last_unit.content for pattern in generic_patterns)
IsGeneric(content) == \E i \in DOMAIN content : content[i] \in generic_patterns

ScriptUnits == {Unit(type, content) : type \in {"narration", "dialogue", "interaction"},
                                      content \in UnitContents}

UnitLists == UNION {[1 .. n -> ScriptUnits] : n \in 0 .. MaxUnits}

\* [unit for unit in script_units if unit.type != INTERACTION]
RECURSIVE WithoutInteractions(_)
WithoutInteractions(script_units) ==
    IF script_units = <<>> THEN <<>>
    ELSE IF Head(script_units).type = "interaction"
         THEN WithoutInteractions(Tail(script_units))
         ELSE <<Head(script_units)>> \o WithoutInteractions(Tail(script_units))

_ensure_valid_script_structure(script_units, fallback_content) ==
    IF script_units = <<>>
    THEN <<Unit("narration", <<"U">>), Unit("interaction", <<"U">>)>>
    ELSE LET has_interaction ==
                 \E i \in DOMAIN script_units : script_units[i].type = "interaction"
             last_unit == script_units[Len(script_units)]
             last_is_interaction ==
                 /\ last_unit.type = "interaction"
                 /\ ~IsGeneric(last_unit.content)
         IN  IF ~has_interaction \/ ~last_is_interaction
             THEN Append(WithoutInteractions(script_units),
                         Unit("interaction", <<fallback_content>>))
             ELSE script_units

NoRepair == [called |-> FALSE, script_units |-> <<>>, result |-> <<>>]

\* One call of the repair step on a unit list a parsed reply may hold
EnsureValidScriptStructure ==
    /\ ~repairing.called
    /\ \E script_units \in UnitLists, fallback_content \in fallback_prompts :
          repairing' = [called |-> TRUE, script_units |-> script_units,
                        result |-> _ensure_valid_script_structure(script_units,
                                                                  fallback_content)]
    /\ UNCHANGED <<pc, req, rl_vars, session_locks, request_cache, events, snapshots,
                   snapshot, current_turn, attempts, last_outcome, generation_result,
                   updated_globals, provider, request_tuple, vendor_calls, twins,
                   control, circuit_breaker, compacting, anchor_vars, pending_requests>>

----------------------------------------------------------------------------
(* Specifications *)

Init ==
    /\ pc = [r \in Requests |-> "idle"]
    /\ req = [r \in Requests |-> NoRequest]
    /\ rl_requests = [e \in Entries |-> <<>>]
    /\ rl_lock = [e \in Entries |-> NoTask]
    /\ sleep_left = [r \in Requests |-> 0]
    /\ session_locks = [e \in Entries |-> [s \in SessionIds |-> NoTask]]
    /\ request_cache = [e \in Entries |-> {}]
    /\ events = [s \in SessionIds |-> <<>>]
    /\ snapshots = [s \in SessionIds |-> <<>>]
    /\ snapshot = [r \in Requests |-> create_initial_snapshot]
    /\ current_turn = [r \in Requests |-> 0]
    /\ attempts = [r \in Requests |-> 0]
    /\ last_outcome = [r \in Requests |-> "none"]
    /\ generation_result = [r \in Requests |-> NoResult]
    /\ updated_globals = [r \in Requests |-> GlobalState(0, 0, {})]
    /\ provider \in {"gemini", "openai"}
    /\ request_tuple = [r \in Requests |-> NoTuple]
    /\ vendor_calls = [r \in Requests |-> 0]
    /\ twins = [r \in Requests |-> {}]
    /\ control = NoControl
    /\ circuit_breaker = CircuitBreaker
    /\ compacting = NoCompaction
    /\ corpus = <<>>
    /\ anchoring = NoAnchoring
    /\ repairing = NoRepair
    /\ pending_requests = [e \in Entries |-> {}]

\* The steps of a turn transaction other than the vendor call.
TaskStep(r) ==
    \/ GetOrCreateSession(r)
    \/ CreateInitialSnapshot(r)
    \/ GetLatestTurn(r)
    \/ AcquireSessionLock(r)
    \/ RLEnter(r)
    \/ RLWake(r)
    \/ AppendUserEvent(r)
    \/ AppendAssistantEvent(r)
    \/ SaveTurnLoad(r)
    \/ SaveSnapshot(r)

\* Requests arrive at any time, for any session, through either router, and run
\* concurrently.  The sessions are interchangeable, so the first request is taken
\* to name session "a"; the vendor answers with a well-formed script or fails
\* with an error.
Next ==
    \/ \E r \in Requests, s \in Sessions, e \in Entries, c \in Choices, k \in Contexts :
          (r = 1 => s = <<"a">>) /\ Arrive(r, s, e, c, k)
    \/ \E r \in Requests : TaskStep(r)
    \/ \E r \in Requests, o \in {"ok", "error"} : VendorAttempt(r, o, WellFormedReply)
    \/ Tick

Spec == Init /\ [][Next]_vars

\* Sequential use: a request arrives only when no other request is being served;
\* the vendor may answer in every way.
Quiet(r) == \A q \in Requests \ {r} : pc[q] \in {"idle", "done"}

SeqNext ==
    \/ \E r \in Requests, s \in Sessions, e \in Entries, c \in Choices, k \in Contexts :
          Quiet(r) /\ (r = 1 => s = <<"a">>) /\ Arrive(r, s, e, c, k)
    \/ \E r \in Requests : TaskStep(r)
    \/ \E r \in Requests, o \in Outcomes, reply \in VendorReplies :
          VendorAttempt(r, o, reply)
    \/ Tick

SeqSpec == Init /\ [][SeqNext]_vars

\* One request on its own, from arrival to response: its limiter has budget, so
\* acquire() never sleeps; the vendor may answer in every way.
SoloNext ==
    \/ \E e \in Entries, c \in Choices, k \in Contexts : Arrive(1, <<"a">>, e, c, k)
    \/ GetOrCreateSession(1)
    \/ CreateInitialSnapshot(1)
    \/ GetLatestTurn(1)
    \/ AcquireSessionLock(1)
    \/ RLEnter(1)
    \/ \E o \in Outcomes, reply \in VendorReplies : VendorAttempt(1, o, reply)
    \/ AppendUserEvent(1)
    \/ AppendAssistantEvent(1)
    \/ SaveTurnLoad(1)
    \/ SaveSnapshot(1)
    \/ Tick

SoloSpec == Init /\ [][SoloNext]_vars

\* One request on its own, with or without a session id, whose generation may
\* also fail inside the dispatcher.
FallbackNext ==
    \/ \E s \in {<<"a">>, <<>>}, e \in Entries, c \in Choices, k \in Contexts :
          Arrive(1, s, e, c, k)
    \/ GetOrCreateSession(1)
    \/ CreateInitialSnapshot(1)
    \/ GetLatestTurn(1)
    \/ AcquireSessionLock(1)
    \/ RLEnter(1)
    \/ \E o \in Outcomes, reply \in VendorReplies : VendorAttempt(1, o, reply)
    \/ GenerationFails(1)
    \/ AppendUserEvent(1)
    \/ AppendAssistantEvent(1)
    \/ SaveTurnLoad(1)
    \/ SaveSnapshot(1)
    \/ Tick

FallbackSpec == Init /\ [][FallbackNext]_vars

\* One request on its own whose writes to the event log and the snapshot file
\* may fail.
WriteNext ==
    \/ SoloNext
    \/ AppendEventFails(1)
    \/ SaveSnapshotFails(1)

WriteSpec == Init /\ [][WriteNext]_vars

\* The Deviation Controller as a function: every current deviation, every delta
ControlNext == \E c \in Deviations, d \in ProposedDeltas : ApplyDeviationControl(c, d)

ControlSpec == Init /\ [][ControlNext]_vars

\* The GlobalState of one session over any number of turns, whatever the vendor
\* proposes
SessionStateNext == \E d \in ProposedDeltas, a \in AffinityChanges : ControlledTurn(d, a)

SessionStateSpec == Init /\ [][SessionStateNext]_vars

\* The CircuitBreaker under callers that keep making protected calls, each of
\* which succeeds or raises
CircuitNext == \E outcome \in {"success", "failure"} : ProtectedCall(outcome)

CircuitSpec == Init /\ [][CircuitNext]_vars /\ WF_vars(CircuitNext)

\* The snapshot of one session over any number of turns, with short and long
\* scripts and every kind of answer to a summary request
CompactionNext ==
    \E choice \in Choices, script \in Scripts, reply \in SummaryReplies :
        SaveTurn(choice, script, reply)

CompactionSpec == Init /\ [][CompactionNext]_vars

\* A turn request served while protected calls go through the process-wide
\* circuit_breaker
BreakerTurnNext ==
    \/ SoloNext
    \/ CircuitNext

BreakerTurnSpec == Init /\ [][BreakerTurnNext]_vars

\* POST /assemble on the scenario corpus, for every list of anchors and both
\* values of include_chapter_intro
AssembleNext ==
    \/ LoadData(ScenarioBook)
    \/ AssembleText

AssembleSpec == Init /\ [][AssembleNext]_vars

\* POST /context on the scenario corpus
ContextNext ==
    \/ LoadData(ScenarioBook)
    \/ BuildAnchorContext

ContextSpec == Init /\ [][ContextNext]_vars

\* A reader going through any corpus with /chunk/first and /chunk/next
ReadNext ==
    \/ \E book \in Books : LoadData(book)
    \/ GetFirstChunk
    \/ GetNextChunk

ReadSpec == Init /\ [][ReadNext]_vars

\* Sequential turns whose reads and writes of the session's files may fail
FaultNext ==
    \/ SeqNext
    \/ \E r \in Requests : LoadSnapshotFails(r)
    \/ \E r \in Requests : AppendEventFails(r)
    \/ \E r \in Requests : SaveSnapshotFails(r)

FaultSpec == Init /\ [][FaultNext]_vars

\* Sequential requests of one player through one router, with or without a
\* session id, whose generation calls leave by every exit: a cached result, the vendor's result,
\* the dispatcher's fallback response, or the exception raised again.
ExitNext ==
    \/ \E r \in Requests, s \in {<<"a">>, <<>>}, k \in Contexts :
          Quiet(r) /\ Arrive(r, s, "game", <<"U">>, k)
    \/ \E r \in Requests : TaskStep(r)
    \/ \E r \in Requests, o \in {"ok", "error"} : VendorAttempt(r, o, WellFormedReply)
    \/ \E r \in Requests : GenerationFails(r)
    \/ Tick

ExitSpec == Init /\ [][ExitNext]_vars

\* Player choices longer than the prefix the request hash keeps of them
LongChoices == {<<"U", "U">>, <<"U", "y">>}

\* The dispatcher's cache under sequential requests through one router, with
\* player choices of any length; the vendor answers or fails with an error.
DedupNext ==
    \/ \E r \in Requests, s \in Sessions, c \in Choices \cup LongChoices, k \in Contexts :
          Quiet(r) /\ Arrive(r, s, "game", c, k)
    \/ \E r \in Requests : TaskStep(r)
    \/ \E r \in Requests, o \in {"ok", "error"} : VendorAttempt(r, o, WellFormedReply)
    \/ Tick

DedupSpec == Init /\ [][DedupNext]_vars

\* The reply repair step on its own
RepairNext == EnsureValidScriptStructure

RepairSpec == Init /\ [][RepairNext]_vars

----------------------------------------------------------------------------
(* The RateLimiter on its own: callers that only call acquire(), again and again *)

\* `await self.rate_limiter.acquire()` on the limiter of one service instance
Acquire(r, e) ==
    /\ pc[r] = "idle"
    /\ req' = [req EXCEPT ![r] = [NoRequest EXCEPT !.entry = e]]
    /\ pc' = [pc EXCEPT ![r] = "rl_wait"]
    /\ UNCHANGED <<rl_vars, turn_vars>>

\* acquire() returned True to the caller
AcquireReturned(r) ==
    /\ pc[r] = "vendor"
    /\ pc' = [pc EXCEPT ![r] = "idle"]
    /\ UNCHANGED <<req, rl_vars, turn_vars>>

RateNext ==
    \/ \E r \in Requests, e \in Entries : Acquire(r, e)
    \/ \E r \in Requests : RLEnter(r)
    \/ \E r \in Requests : RLWake(r)
    \/ \E r \in Requests : AcquireReturned(r)
    \/ Tick

\* Time passes, a task that can run does run, and asyncio.Lock hands the lock
\* to a waiting task whenever it is released.
RateSpec ==
    /\ Init
    /\ [][RateNext]_vars
    /\ WF_vars(Tick)
    /\ \A r \in Requests :
          /\ WF_vars(RLWake(r))
          /\ SF_vars(RLEnter(r))
          /\ WF_vars(AcquireReturned(r))

----------------------------------------------------------------------------
(* Properties *)

\* generate_structured_script has returned to generate_story_script
Returned(r) ==
    pc[r] \in {"append_user", "append_assistant", "load_snapshot", "save_snapshot", "done"}

\* The turns of a session's log, in append order: its assistant events
Turns(s) == SelectSeq(events[s], LAMBDA ev : ev.role = "assistant")

\* The turns that the tasks in Q appended to the log of session s
TurnsBy(s, Q) ==
    {i \in DOMAIN events[s] : events[s][i].role = "assistant" /\ events[s][i].task \in Q}

\* C1: at any time at most one vendor call is in flight for a session, whichever
\* entry point the requests of that session arrive through.
C1_OneGenerationPerSession ==
    \A r, q \in Requests :
        (r # q /\ pc[r] = "vendor" /\ pc[q] = "vendor")
            => req[r].session_id # req[q].session_id

\* C2: turn requests of one session that run concurrently never append two turns
\* with the same turn number to the session's log.
C2_TurnNumbersNeverCollide ==
    \A s \in Sessions :
        \A i, j \in DOMAIN Turns(s) : i # j => Turns(s)[i].t # Turns(s)[j].t

\* C3: after N sequential turns of a session the turn numbers in its log increase
\* strictly in append order, without gaps: the k-th turn carries number k.
C3_SequentialTurnsNumbered ==
    \A s \in Sessions : \A k \in DOMAIN Turns(s) : Turns(s)[k].t = k

\* C4: two generate calls with an identical (session, context prefix, prompt,
\* deviation, temperature) tuple, the second issued while the first is in flight
\* or within the cache window after it, return the same result and cause exactly
\* one vendor call in total.
C4_IdenticalTupleOneVendorCall ==
    \A r \in Requests : \A q \in twins[r] :
        (Returned(r) /\ Returned(q))
            => /\ vendor_calls[r] + vendor_calls[q] = 1
               /\ generation_result[r] = generation_result[q]

\* C5: a retry or double-submit of the same turn request is absorbed: of the two
\* requests only one turn is appended to the Event Log and to the Snapshot.
C5_DoubleSubmitAbsorbed ==
    \A r \in Requests : \A q \in twins[r] :
        (pc[r] = "done" /\ pc[q] = "done")
            => LET s == req[r].session_id
               IN  /\ Cardinality(TurnsBy(s, {r, q})) = 1
                   /\ Cardinality({i \in DOMAIN snapshots[s][1].recent :
                                     /\ snapshots[s][1].recent[i].role = "assistant"
                                     /\ snapshots[s][1].recent[i].task \in {r, q}}) <= 1

\* C6: a caller that acquire() suspends because the budget is exhausted eventually
\* obtains a slot: every acquire call eventually returns.
C6_AcquireEventuallyReturns ==
    \A r \in Requests : (pc[r] = "rl_sleep") ~> (pc[r] = "vendor")

\* C7: the budget is shared process-wide: over all service instances no more than
\* max_requests calls are admitted within any window of time_window.
C7_BudgetSharedProcessWide ==
    Len(CleanExpired(rl_requests["game"])) + Len(CleanExpired(rl_requests["llm"]))
        <= max_requests

\* C8: when every vendor attempt of a generation has failed, the dispatcher
\* returns the canned fallback result marked fallback = TRUE after at most
\* max_retries attempts, and returns it normally to the turn transaction.
C8_FallbackAfterFailures ==
    \A r \in Requests :
        (attempts[r] > 0 /\ last_outcome[r] # "ok" /\ pc[r] # "vendor")
            => /\ pc[r] = "append_user"
               /\ attempts[r] <= max_retries
               /\ generation_result[r].fallback
               /\ generation_result[r].script_units # <<>>

\* C8 witness: the third of three failing attempts has been made and the
\* fallback result returned.
C8_Witness ==
    \E r \in Requests :
        /\ pc[r] = "append_user"
        /\ attempts[r] = max_retries
        /\ last_outcome[r] = "error"
        /\ generation_result[r].fallback

\* C9: a vendor error on one attempt is retried while the retry budget lasts, so
\* that a later successful attempt returns the vendor's script: the provider gives
\* up on an error only when it has made max_retries attempts.
C9_TransientErrorRetried ==
    \A r \in Requests :
        (pc[r] = "append_user" /\ last_outcome[r] = "error")
            => attempts[r] = max_retries

\* C10: every script persisted in an assistant TurnEvent is non-empty and ends
\* with exactly one interaction unit.
C10_PersistedScriptEndsWithInteraction ==
    \A s \in Sessions : \A k \in DOMAIN Turns(s) :
        LET script == Turns(s)[k].script
        IN  /\ script # <<>>
            /\ script[Len(script)].type = "interaction"
            /\ \A i \in 1 .. Len(script) - 1 : script[i].type # "interaction"

\* A well-formed minimal script: one narration unit followed by one interaction unit
MinimalScript(script) ==
    /\ Len(script) = 2
    /\ script[1].type = "narration"
    /\ script[2].type = "interaction"

\* C11: every fallback generation result, be it built by a provider adapter, by
\* the dispatcher or by the orchestrator, is a script of exactly one narration
\* unit followed by exactly one interaction unit.
C11_FallbackIsMinimalScript ==
    /\ \A f \in {_create_fallback_response, _get_fallback_response,
                  OrchestratorFallbackResult} : f.fallback /\ MinimalScript(f.script_units)
    /\ \A r \in Requests :
          generation_result[r].fallback => MinimalScript(generation_result[r].script_units)

\* C11 witness: a generation without session id failed inside the dispatcher and
\* the turn goes on with the orchestrator's fallback result.
C11_Witness ==
    /\ pc[1] = "append_assistant"
    /\ req[1].session_id = <<>>
    /\ generation_result[1] = OrchestratorFallbackResult
    /\ events[<<>>] # <<>>

\* The events that task r wrote to the log of its session, by role
Logged(r, role) ==
    {i \in DOMAIN events[req[r].session_id] :
        /\ events[req[r].session_id][i].task = r
        /\ events[req[r].session_id][i].role = role}

\* C12: writes of the persisted state are fail-loud: a turn returns a response
\* only if its two event appends and its snapshot save succeeded; a failed write
\* ends the turn with an error.
C12_WritesFailLoud ==
    \A r \in Requests :
        pc[r] = "done"
            => /\ Logged(r, "user") # {}
               /\ Logged(r, "assistant") # {}
               /\ snapshots[req[r].session_id] # <<>>
               /\ \E i \in DOMAIN snapshots[req[r].session_id][1].recent :
                     snapshots[req[r].session_id][1].recent[i].task = r

\* C12 witness: the user event is in the log, the append of the assistant event
\* failed, and the turn has ended with the error.
C12_Witness ==
    /\ pc[1] = "failed"
    /\ Logged(1, "user") # {}
    /\ Logged(1, "assistant") = {}

\* The bands of the cap/floor table that contain a deviation (0.30 lies on the
\* border of two), and their caps and floors in hundredths
Bands(current) ==
    {b \in {"low", "medium", "high", "critical"} :
        \/ b = "low" /\ current < 5
        \/ b = "medium" /\ current >= 5 /\ current <= 30
        \/ b = "high" /\ current >= 30 /\ current <= 60
        \/ b = "critical" /\ current > 60}

PositiveCap(band) ==
    IF band = "low" THEN 5 ELSE IF band = "medium" THEN 10 ELSE IF band = "high" THEN 2 ELSE 0

HasFloor(band) == band \in {"high", "critical"}

NegativeFloor(band) == IF band = "high" THEN -15 ELSE -20

\* C13: for every current deviation in [0,1] and every proposed delta the applied
\* delta does not exceed the positive cap of the band containing current (+0.05,
\* +0.10, +0.02, 0) and does not fall below that band's negative floor (none,
\* none, -0.15, -0.20); current 0.65 with proposed +0.10 yields 0.
C13_AppliedDeltaWithinBand ==
    /\ \E b \in Bands(control.current) :
          /\ control.applied <= PositiveCap(b)
          /\ HasFloor(b) => control.applied >= NegativeFloor(b)
    /\ (control.current = 65 /\ control.proposed = 10) => control.applied = 0

\* C13 witness: the controller was asked for +0.10 at deviation 0.65 and applied 0.
C13_Witness ==
    /\ control.current = 65
    /\ control.proposed = 10
    /\ control.applied = 0

C15_ProfileFollowsDeviationLevel ==
    control.level \in Bands(control.current)

\* C16: whenever a full window of protected requests completes with a failure
\* ratio above the error threshold, the circuit breaker is open afterwards.
C16_FailingWindowOpensBreaker ==
    (/\ circuit_breaker.closed # <<>>
     /\ RateAboveThreshold(circuit_breaker.closed[1], circuit_breaker.closed[2]))
        => circuit_breaker.is_open

\* C17: while the circuit breaker is open, a generation request is routed
\* straight to the fallback result and no vendor call is attempted for it: a
\* request that enters the dispatcher with the breaker open leaves it at once
\* with a fallback result instead of going on to the rate limiter and the vendor.
C17_OpenBreakerBlocksVendorCall ==
    [][\A r \in Requests :
          (circuit_breaker.is_open /\ pc[r] = "lock" /\ pc'[r] # "lock")
              => (pc'[r] = "append_user" /\ generation_result'[r].fallback)]_vars

\* C18: an open breaker does not stay open: after the measurement window resets
\* it is closed again and protected calls are attempted once more.
C18_OpenBreakerClosesAgain ==
    circuit_breaker.is_open ~> ~circuit_breaker.is_open

\* C19: after compaction has run on a snapshot, len(recent) <= max_recent_events
\* or the serialized snapshot size <= max_snapshot_size holds.
C19_CompactedSnapshotWithinLimit ==
    compacting.compacted
        => \/ Len(compacting.recent) <= max_recent_events
           \/ snapshot_size(compacting) <= max_snapshot_size

\* C19 witness: recent had outgrown max_recent_events, and compaction folded a
\* full batch of events into the summary.
C19_Witness ==
    /\ compacting.compacted
    /\ compacting.folded = summarization_batch_size
    /\ Len(compacting.recent) + compacting.folded > max_recent_events

\* C20: whenever compaction folds at least one event out of recent, the
\* snapshot's summary is non-empty afterwards.
C20_FoldedEventsLeaveSummary ==
    compacting.folded > 0 => compacting.summary # <<>>

\* C21: if the summarization capability fails during compaction, the oldest
\* events are cut from recent without any new text being folded into summary, and
\* the save of the turn completes all the same.
C21_FailedSummaryFoldsNothing ==
    [][(compacting'.reply = "error" /\ compacting'.folded > 0)
          => compacting'.summary = compacting.summary]_vars

\* The maximal runs of consecutive anchors with one chapter id: where they start,
\* where the run starting at s ends, and the start of the k-th run
RunStarts(anchors) ==
    {i \in 1..Len(anchors) : i = 1 \/ anchors[i].chapter_id # anchors[i - 1].chapter_id}

RunEnd(anchors, s) ==
    CHOOSE e \in s..Len(anchors) :
        /\ e = Len(anchors) \/ (e + 1) \in RunStarts(anchors)
        /\ \A j \in (s + 1)..e : j \notin RunStarts(anchors)

RunStart(anchors, k) ==
    CHOOSE s \in RunStarts(anchors) :
        Cardinality({t \in RunStarts(anchors) : t <= s}) = k

\* The response of an assembly that POST /assemble answered with 200
Assembled == anchoring.assembled.status = "ok" /\ anchoring.anchors # <<>>

\* The texts of all spans, one after the other
SpanTexts ==
    Join([k \in 1..Len(anchoring.assembled.spans) |-> anchoring.assembled.spans[k].text])

\* The corpus text of a chapter from chunk start_id to chunk end_id
ChapterText(chapter_id, start_id, end_id) ==
    LET lo == chunk_index(chapter_id, start_id)
        hi == chunk_index(chapter_id, end_id)
    IN  [k \in 1..(hi - lo + 1) |-> chapter_chunks(chapter_id)[lo + k - 1].chunk_id]

\* Both ends of the span are chunks of the span's chapter
InChapter(span) ==
    /\ chunk_index(span.chapter_id, span.start_id) > 0
    /\ chunk_index(span.chapter_id, span.end_id) > 0

\* C22: for every non-empty anchor list assembled without intro, the texts of the
\* spans taken together hold the corpus text of every chapter sub-range exactly
\* once: no chunk occurs twice, every span whose ends are in its chapter holds the
\* chunks from its start to its end, and assembling the same list again gives the
\* same response.
C22_SpansCoverSubRangesOnce ==
    (Assembled /\ ~anchoring.include_intro)
        => /\ \A i, j \in 1..Len(SpanTexts) : i # j => SpanTexts[i] # SpanTexts[j]
           /\ \A k \in 1..Len(anchoring.assembled.spans) :
                  LET span == anchoring.assembled.spans[k]
                  IN  InChapter(span)
                          => span.text = ChapterText(span.chapter_id, span.start_id,
                                                     span.end_id)
           /\ assemble_by_anchors(anchoring.anchors, FALSE) = anchoring.assembled

\* C23: an assembly returns exactly one span per maximal run of consecutive anchors
\* with one chapter id, in the order of the anchors; the span of a run is in the
\* run's chapter, starts at the run's span_start (the first anchor's chunk, or the
\* chapter's first chunk with include_intro) and ends at the run's last anchor.
C23_OneSpanPerRun ==
    Assembled
        => LET anchors == anchoring.anchors
               spans == anchoring.assembled.spans
           IN  /\ Len(spans) = Cardinality(RunStarts(anchors))
               /\ \A k \in 1..Len(spans) :
                      LET s == RunStart(anchors, k)
                          e == RunEnd(anchors, s)
                      IN  /\ spans[k].chapter_id = anchors[s].chapter_id
                          /\ spans[k].end_id = anchors[e].chunk_id
                          /\ spans[k].start_id =
                                 IF /\ anchoring.include_intro
                                    /\ get_chapter_chunk_count(anchors[s].chapter_id) > 0
                                 THEN chapter_chunks(anchors[s].chapter_id)[1].chunk_id
                                 ELSE anchors[s].chunk_id

\* The scenario: anchors (chapter 1, ch1_2), (chapter 2, ch2_1) without intro give
\* the spans (1, ch1_2, ch1_2) and (2, ch2_1, ch2_1)
C23_Witness ==
    /\ corpus = ScenarioBook
    /\ anchoring.anchors = <<Anchor(1, ChunkId(1, 2)), Anchor(2, ChunkId(2, 1))>>
    /\ ~anchoring.include_intro
    /\ anchoring.assembled.status = "ok"
    /\ anchoring.assembled.spans =
           <<Span(1, ChunkId(1, 2), ChunkId(1, 2), <<ChunkId(1, 2)>>),
             Span(2, ChunkId(2, 1), ChunkId(2, 1), <<ChunkId(2, 1)>>)>>

\* C24: every span of an assembly has a start_id and an end_id that are chunks of
\* the span's chapter, and start_id is not after end_id in the chapter's order.
C24_SpanEndsOrderedInChapter ==
    Assembled
        => \A k \in 1..Len(anchoring.assembled.spans) :
               LET span == anchoring.assembled.spans[k]
               IN  /\ InChapter(span)
                   /\ chunk_index(span.chapter_id, span.start_id)
                          <= chunk_index(span.chapter_id, span.end_id)

\* The span assemble makes for the k-th run of the anchors
RunSpan(anchors, include_intro, k) ==
    LET s == RunStart(anchors, k)
        chapter_id == anchors[s].chapter_id
    IN  [chapter_id |-> chapter_id,
         start_id |-> IF include_intro /\ get_chapter_chunk_count(chapter_id) > 0
                      THEN chapter_chunks(chapter_id)[1].chunk_id
                      ELSE anchors[s].chunk_id,
         end_id |-> anchors[RunEnd(anchors, s)].chunk_id]

\* C25: a span whose chunk-range lookup fails, its start or its end not being a
\* chunk of the chapter, is left out of the spans and of the text of the assembly,
\* and all other spans are there.
C25_FailedLookupSkipsSpan ==
    Assembled
        => LET anchors == anchoring.anchors
               spans == anchoring.assembled.spans
               found == {k \in 1..Cardinality(RunStarts(anchors)) :
                            InChapter(RunSpan(anchors, anchoring.include_intro, k))}
           IN  /\ \A k \in 1..Len(spans) : InChapter(spans[k])
               /\ Len(spans) = Cardinality(found)
               /\ anchoring.assembled.text =
                      JoinParts([k \in 1..Len(spans) |-> spans[k].text])

\* C26: with include_intro an assembly whose anchors all exist completes without
\* raising, and a run whose chapter cannot be looked up, the first one included,
\* starts at its first anchor's own chunk.
C26_IntroSeedingFallsBack ==
    (anchoring.include_intro /\ anchoring.anchors # <<>>
        /\ anchoring.assembled.status \in {"ok", "ValueError"})
        => /\ anchoring.assembled.status = "ok"
           /\ \A k \in 1..Cardinality(RunStarts(anchoring.anchors)) :
                  LET s == RunStart(anchoring.anchors, k)
                  IN  get_first_chunk_id_raises(anchoring.anchors[s].chapter_id)
                          => anchoring.assembled.spans[k].start_id
                                 = anchoring.anchors[s].chunk_id

\* The context built for the same anchors with include_tail off
WithoutTail ==
    build_anchor_context(anchoring.anchors[1], anchoring.previous, FALSE,
                         anchoring.is_last_anchor_in_chapter)

\* A call of POST /context that got as far as build_anchor_context, with
\* include_tail and is_last_anchor_in_chapter
BuiltWithTail ==
    /\ anchoring.context.status \in {"ok", "ValueError"}
    /\ anchoring.include_tail
    /\ anchoring.is_last_anchor_in_chapter

\* C27: for every anchor, the context built with include_tail and
\* is_last_anchor_in_chapter is at least as long as the context built for the same
\* arguments with include_tail off (and is built whenever that one is).
C27_TailNeverShortensContext ==
    (BuiltWithTail /\ WithoutTail.status = "ok")
        => /\ anchoring.context.status = "ok"
           /\ Len(anchoring.context.context) >= Len(WithoutTail.context)

C27_Witness ==
    /\ BuiltWithTail
    /\ WithoutTail.status = "ok"
    /\ anchoring.context.has_tail
    /\ Len(anchoring.context.context) > Len(WithoutTail.context)
    /\ WithoutTail.context # <<>>

\* The chunk ids of the corpus in corpus order
CorpusOrder ==
    Join([i \in 1..Len(corpus) |->
             [n \in 1..Len(corpus[i].chunks) |-> corpus[i].chunks[n].chunk_id]])

C29_LatestTurnIsLastAppended ==
    \A s \in SessionIds :
        get_latest_turn(events[s]) =
            IF events[s] = <<>> THEN 0 ELSE events[s][Len(events[s])].t

\* C30: a vendor payload that does not parse gets one repair attempt before the
\* fallback: when the repaired payload parses, the turn goes on with the vendor's
\* script; when it does not, with the provider's canned fallback response.
C30_MalformedPayloadRepairedOnce ==
    \A r \in Requests :
        (pc[r] = "append_user" /\ attempts[r] > 0)
            => /\ last_outcome[r] = "repairable" => generation_result[r] \in VendorReplies
               /\ last_outcome[r] = "malformed"
                      => generation_result[r] = _create_fallback_response

\* The GlobalState that replaying a log from `state` gives: every assistant event
\* is applied with _update_global_state.  A TurnEvent carries deviation_delta and
\* affinity_changes; it has no field for flag or variable updates.
RECURSIVE Replay(_, _)
Replay(log, state) ==
    IF log = <<>> THEN state
    ELSE Replay(Tail(log),
                IF Head(log).role = "assistant"
                THEN _update_global_state(
                         state, [deviation_delta |-> Head(log).deviation_delta,
                                 affinity_changes |-> Head(log).affinity_changes,
                                 flags_updates |-> {}])
                ELSE state)

\* No turn of session s is under way
AtRest(s) == \A r \in Requests : req[r].session_id = s => pc[r] \in {"idle", "done"}

\* C31: the Snapshot of a session can be rebuilt from its Event Log: replaying the
\* logged events in order from the initial state, with the Deviation Controller and
\* the merge rules, gives the GlobalState of the stored snapshot.
C31_SnapshotRebuildableFromLog ==
    \A s \in SessionIds :
        (snapshots[s] # <<>> /\ AtRest(s))
            => Replay(events[s], create_initial_snapshot.globals) = snapshots[s][1].globals

\* Request r is suspended: it waits for rate-limit budget, for the vendor's reply
\* or for persistence I/O
Suspended(r) ==
    pc[r] \in {"rl_wait", "rl_sleep", "vendor", "append_user", "append_assistant",
               "load_snapshot", "save_snapshot"}

\* Request q waits to enter RateLimiter.acquire and its limiter has budget for it
BudgetAvailable(q) ==
    /\ pc[q] = "rl_wait"
    /\ ~LimitReached(CleanExpired(rl_requests[req[q].entry]))

\* C32: a generation request suspended for one session never blocks another
\* session: while it is suspended, a request of a different session that has
\* rate-limit budget available can take that budget and go on, that is, nothing
\* holds the limiter's lock against it.  (A holder of the lock that is still in its
\* sleep is let off: its sleep ends when the budget comes back.)
C32_SuspendedSessionBlocksNoOther ==
    \A r, q \in Requests :
        (r # q /\ req[r].session_id # req[q].session_id /\ Suspended(r)
            /\ BudgetAvailable(q))
            => \A h \in rl_lock[req[q].entry] : pc[h] = "rl_sleep"

\* The non-interaction units of a list, in order
RECURSIVE NonInteractions(_)
NonInteractions(units) ==
    IF units = <<>> THEN <<>>
    ELSE (IF Head(units).type = "interaction" THEN <<>> ELSE <<Head(units)>>)
             \o NonInteractions(Tail(units))

\* C33: for any input unit list the reply validation/repair step returns a
\* non-empty list whose last unit is an interaction unit and which holds exactly
\* one interaction unit; the non-interaction units of a non-empty input keep
\* their order and every interaction unit before the last is removed.
C33_RepairEndsWithOneInteraction ==
    repairing.called =>
        LET result == repairing.result
        IN  /\ result # <<>>
            /\ result[Len(result)].type = "interaction"
            /\ Cardinality({i \in DOMAIN result : result[i].type = "interaction"}) = 1
            /\ repairing.script_units # <<>>
                   => NonInteractions(result) = NonInteractions(repairing.script_units)

\* The cache entries whose result the dispatcher returns to request r when it
\* has taken the session lock
CacheAnswers(r) ==
    IF pc[r] = "lock"
    THEN CacheHits(request_cache[req[r].entry], RequestHash(request_tuple[r]),
                   request_tuple[r].prompt)
    ELSE {}

\* C34: the dedup cache returns a stored result only to a request whose
\* session_id, prompt, context prefix, deviation and temperature equal those of
\* the request that produced it; in particular never to a request of a
\* different session.
C34_CacheAnswersOnlyEqualRequest ==
    \A r \in Requests :
        \A c \in CacheAnswers(r) :
            /\ request_tuple[c.by].session_id = request_tuple[r].session_id
            /\ request_tuple[c.by].prompt = request_tuple[r].prompt
            /\ Prefix(request_tuple[c.by].context, context_prefix)
                   = Prefix(request_tuple[r].context, context_prefix)
            /\ request_tuple[c.by].deviation = request_tuple[r].deviation
            /\ request_tuple[c.by].temperature = request_tuple[r].temperature

\* A call of POST /context that got as far as build_anchor_context for a current
\* anchor whose chunk is a chunk of the anchor's chapter
BuiltForExistingAnchor ==
    /\ anchoring.context.status \in {"ok", "ValueError"}
    /\ chunk_index(anchoring.anchors[1].chapter_id, anchoring.anchors[1].chunk_id) > 0

\* C35: build_context returns the chunks after the previous anchor (or from the
\* chapter's start) through the current anchor's chunk inclusive: for any
\* existing current anchor the returned context contains the text of the current
\* anchor's chunk.
C35_ContextHoldsCurrentChunk ==
    BuiltForExistingAnchor
        => /\ anchoring.context.status = "ok"
           /\ \E i \in DOMAIN anchoring.context.context :
                  <<anchoring.context.context[i]>>
                      = get_chunk_text(anchoring.anchors[1].chunk_id)

\* C36: once a session's Snapshot has been created it is never deleted or
\* replaced by a fresh initial snapshot, also when a load of the stored snapshot
\* fails: no step takes a stored snapshot that is not the initial one to no
\* snapshot or to the initial snapshot.
C36_SnapshotNeverReset ==
    [][\A s \in SessionIds :
          snapshots[s] # <<>>
              => /\ snapshots'[s] # <<>>
                 /\ snapshots'[s][1] = create_initial_snapshot
                        => snapshots[s][1] = create_initial_snapshot]_vars

\* The events request r wrote: those of its task in a sequence of events
RECURSIVE EventsOf(_, _)
EventsOf(r, log) ==
    IF log = <<>> THEN <<>>
    ELSE (IF Head(log).task = r THEN <<Head(log)>> ELSE <<>>) \o EventsOf(r, Tail(log))

\* C37: the turn transaction is all-or-nothing for persisted state: when saving a
\* turn has failed at any step, neither the session's Event Log nor its Snapshot
\* holds anything of that turn.
C37_FailedTurnLeavesNothing ==
    \A r \in Requests :
        pc[r] = "failed"
            => /\ EventsOf(r, events[req[r].session_id]) = <<>>
               /\ snapshots[req[r].session_id] # <<>>
                      => EventsOf(r, snapshots[req[r].session_id][1].recent) = <<>>

\* The GlobalState of a new session after the turns of r and then q, one after
\* the other
AppliedInTurn(r, q) ==
    _update_global_state(
        _update_global_state(create_initial_snapshot.globals, generation_result[r]),
        generation_result[q])

\* C38: no lost update on session state: when two turns of one session overlap
\* in time, the GlobalState saved after both have completed is the result of
\* applying both turns' deltas one after the other.
C38_NoLostUpdate ==
    \A r, q \in Requests :
        (r # q /\ req[r].session_id = req[q].session_id
            /\ pc[r] = "done" /\ pc[q] = "done")
            => snapshots[req[r].session_id][1].globals
                   \in {AppliedInTurn(r, q), AppliedInTurn(q, r)}

GenerationLeft(r) ==
    pc[r] \in {"append_user", "append_assistant", "load_snapshot", "save_snapshot",
               "done", "failed"}

\* C40: every exit path of a generation call (cache hit, success, fallback,
\* raised exception) releases the session lock and removes the request's entry
\* from the pending-request map: a request whose generation call is over holds no
\* session lock and has no pending entry, so it blocks no later request of its
\* session.
C40_ExitsReleaseLockAndPending ==
    \A r \in Requests :
        GenerationLeft(r)
            => /\ \A e \in Entries, s \in SessionIds : r \notin session_locks[e][s]
               /\ \A e \in Entries : \A p \in pending_requests[e] : p.task # r

\* A request with the same tuple as a finished one of its session has been cut
\* off from the cache by time, holds the session lock and is pending at the vendor
C40_Witness ==
    \E r, q \in Requests :
        /\ r # q
        /\ req[r].session_id = req[q].session_id
        /\ pc[r] = "done"
        /\ pc[q] = "vendor"
        /\ q \in session_locks[req[q].entry][req[q].session_id]
        /\ \E p \in pending_requests[req[q].entry] :
              p.task = q /\ p.hash = RequestHash(request_tuple[r])

====
